---------------------------- MODULE Spec2Model ----------------------------
(***************************************************************************)
(* A state-machine model of the visual-matching agent: the Action          *)
(* Validator and Action Executor (automation/executor.py), the Agent State *)
(* Machine (controllers/agent_state.py), the Agent Controller              *)
(* (controllers/agent_controller.py) and the Iteration Runner              *)
(* (controllers/iteration_runner.py).                                      *)
(*                                                                         *)
(* Conventions.  An optional Python value is a set of at most one element: *)
(* None is {} and the value v is {v}.  A raw action payload (a dict) is a  *)
(* function from the keys it holds to optional values.  Each thread of the *)
(* program has a position pc[t]; a step of the model is one step of one    *)
(* thread or of the environment (the OS window focus, the user).           *)
(***************************************************************************)
EXTENDS Integers, Sequences, FiniteSets, TLC

(***************************************************************************)
(* Bounds of the model.                                                    *)
(***************************************************************************)
\* the longest batch a direct caller hands to execute_actions
MaxBatch == 3
\* the most passes one continuous run performs before the model stops it
MaxPasses == 2
\* the most passes of the runs that are followed until they converge
MaxLongPasses == 6

(***************************************************************************)
(* Threads.  w1 and w2 are task-queue threads running run_iteration; d is  *)
(* a caller that invokes execute_actions directly, as the test scripts do. *)
(***************************************************************************)
Workers == {"w1", "w2"}

\* the thread of the runs that follow one another
Runner == "w1"

Direct == "d"

Threads == Workers \cup {Direct}

(***************************************************************************)
(* Action payloads and the calibration.                                    *)
(***************************************************************************)
\* Action's fields, the keys execute_actions keeps of a raw payload
ActionFields == {"type", "target", "dx", "dy", "value", "keys", "reason"}

\* the calibrated targets (CalibrationProfile.targets)
Targets == {"lift", "roi_center"}

\* CalibrationProfile.control_metadata: control name -> defaultValue
ControlDefaults == [c \in {"lift", "roi_center"} |-> 0]

MAX_DX == 200

MAX_DY == 200

ALLOWED_KEYS ==
  {"ctrl", "alt", "shift", "enter", "backspace", "delete", "esc", "tab",
   "left", "right", "up", "down", "z", "a", "c", "v", "x",
   "1", "2", "3", "4", "5", "6", "7", "8", "9", "0"}

\* str(key).lower() on the key names the model uses
Lower(k) ==
  CASE k = "Z" -> "z"
    [] k = "CTRL" -> "ctrl"
    [] k = "F4" -> "f4"
    [] OTHER -> k

\* the payloads the model draws from
KeyOk ==
  [type |-> {"keypress"}, target |-> {"keyboard"}, keys |-> {<<"CTRL", "Z">>},
   reason |-> {"r"}, note |-> {"extra"}]

KeyBad ==
  [type |-> {"keypress"}, target |-> {"keyboard"}, keys |-> {<<"alt", "F4">>},
   reason |-> {"r"}]

KeyEmpty ==
  [type |-> {"keypress"}, target |-> {"keyboard"}, keys |-> {<<>>}, reason |-> {"r"}]

KeyMissing == [type |-> {"keypress"}, target |-> {"keyboard"}, reason |-> {"r"}]

DragOk ==
  [type |-> {"drag"}, target |-> {"lift"}, dx |-> {500}, dy |-> {-500}, reason |-> {"r"}]

DragUnknown ==
  [type |-> {"drag"}, target |-> {"ghost"}, dx |-> {10}, reason |-> {"r"}]

DragNull == [type |-> {"drag"}, target |-> {}, dx |-> {10}, reason |-> {"r"}]

SliderOk ==
  [type |-> {"set_slider"}, target |-> {"lift"}, value |-> {1}, reason |-> {"r"}]

SliderUnknown ==
  [type |-> {"set_slider"}, target |-> {"ghost"}, value |-> {1}, reason |-> {"r"}]

SliderNoValue == [type |-> {"set_slider"}, target |-> {"lift"}, reason |-> {"r"}]

Unsupported == [type |-> {"wheel"}, target |-> {"lift"}, reason |-> {"r"}]

\* a payload without "type": Action(**payload) raises
Malformed == [target |-> {"lift"}, reason |-> {"r"}]

RawActions ==
  {KeyOk, KeyBad, KeyEmpty, KeyMissing, DragOk, DragUnknown, DragNull,
   SliderOk, SliderUnknown, SliderNoValue, Unsupported, Malformed}

\* a position of a batch whose payload the caller has not fixed yet: it is
\* drawn when the loop of execute_actions reads it
Unread == [unread |-> {}]

Get(raw, f) == IF f \in DOMAIN raw THEN raw[f] ELSE {}

\* Action(**payload) succeeds when the required fields type and target are given
ParseOk(raw) == "type" \in DOMAIN raw /\ "target" \in DOMAIN raw

\* the Action built from the payload's supported keys, the others dropped
ParseAction(raw) == [f \in ActionFields |-> Get(raw, f)]

Max(a, b) == IF a >= b THEN a ELSE b

Min(a, b) == IF a <= b THEN a ELSE b

\* a faulty variant: the deltas are left as they are
clamp_nothing(action) == action

clamp_drag(action) ==
  [action EXCEPT !["dx"] = {Max(-MAX_DX, Min(MAX_DX, v)) : v \in @},
                 !["dy"] = {Max(-MAX_DY, Min(MAX_DY, v)) : v \in @}]

Range(s) == {s[k] : k \in 1..Len(s)}

\* a faulty variant: one allowed key is enough
keys_allowed_any(keys) == \E k \in Range(keys) : Lower(k) \in ALLOWED_KEYS

keys_allowed(keys) == {Lower(k) : k \in Range(keys)} \subseteq ALLOWED_KEYS

\* not action.keys: None or an empty list
KeysFalsy(action) == action["keys"] = {} \/ action["keys"] = {<<>>}

Valid == [ok |-> TRUE, code |-> "", reason |-> ""]

Invalid(code, reason) == [ok |-> FALSE, code |-> code, reason |-> reason]

\* ActionValidator.validate; calibration is TRUE for a profile, FALSE for None
validate(action, calibration) ==
  IF action["type"] = {"drag"} /\ action["target"] = {}
    THEN Invalid("E001", "Missing target for drag action.")
  ELSE IF action["type"] = {"drag"} /\ calibration
          /\ ~(action["target"] \subseteq Targets)
    THEN Invalid("E001", "Unknown target.")
  ELSE IF action["type"] = {"keypress"} /\ KeysFalsy(action)
    THEN Invalid("E002", "Missing keys for keypress action.")
  ELSE IF action["type"] = {"keypress"}
          /\ \E ks \in action["keys"] : ~keys_allowed(ks)
    THEN Invalid("E002", "Disallowed key combo.")
  ELSE Valid

(***************************************************************************)
(* Synthetic input.  An event records the focus owner at the time it was   *)
(* sent.                                                                   *)
(***************************************************************************)
FocusOwners == {"resolve", "other", "none"}

Ev(kind, keys, dx, dy, at) == [kind |-> kind, keys |-> keys, dx |-> dx, dy |-> dy, at |-> at]

Pointer(kind, at) == Ev(kind, <<>>, 0, 0, at)

Hotkey(keys, at) == Ev("hotkey", keys, 0, 0, at)

OptInt(s) == IF s = {} THEN 0 ELSE CHOOSE v \in s : TRUE

\* ActionExecutor._execute without an OS exception: the input events it sends
\* and the value it returns
ExecutePlan(action, calibration, at) ==
  IF action["type"] = {"keypress"} /\ ~KeysFalsy(action)
    THEN [events |-> <<Hotkey(CHOOSE ks \in action["keys"] : TRUE, at)>>, ok |-> TRUE]
  ELSE IF ~calibration \/ action["target"] = {} \/ ~(action["target"] \subseteq Targets)
    THEN [events |-> <<>>, ok |-> FALSE]
  ELSE IF action["type"] = {"drag"}
    THEN [events |-> <<Pointer("moveTo", at), Pointer("mouseDown", at),
                       Ev("moveRel", <<>>, OptInt(action["dx"]), OptInt(action["dy"]), at),
                       Pointer("mouseUp", at)>>,
          ok |-> TRUE]
  ELSE IF action["type"] = {"set_slider"} /\ action["value"] # {}
    THEN [events |-> <<Pointer("moveTo", at), Pointer("moveTo", at), Pointer("click", at),
                       Pointer("doubleClick", at), Hotkey(<<"ctrl", "a">>, at),
                       Hotkey(<<"backspace">>, at), Pointer("typewrite", at),
                       Hotkey(<<"enter">>, at)>>,
          ok |-> TRUE]
  ELSE [events |-> <<Pointer("moveTo", at)>>, ok |-> FALSE]

\* a logged message: its code and the action it is about
NoAction == [f \in ActionFields |-> {}]

Msg(code, action) == [code |-> code, action |-> action]

\* _has_focus: no active window (or a failing query) counts as focused
has_focus(owner) == owner \in {"resolve", "none"}


(***************************************************************************)
(* The Agent State Machine.                                                *)
(***************************************************************************)
AgentStates ==
  {"IDLE", "CONFIGURING", "CALIBRATING", "READY", "RUNNING", "PAUSED", "STOPPED", "ERROR"}

VALID_TRANSITIONS ==
  [s \in AgentStates |->
     CASE s = "IDLE" -> {"CONFIGURING", "CALIBRATING", "READY"}
       [] s = "CONFIGURING" -> {"READY", "IDLE"}
       [] s = "CALIBRATING" -> {"READY", "IDLE"}
       [] s = "READY" -> {"RUNNING", "CONFIGURING", "CALIBRATING"}
       [] s = "RUNNING" -> {"PAUSED", "STOPPED", "ERROR", "READY"}
       [] s = "PAUSED" -> {"RUNNING", "STOPPED", "ERROR"}
       [] s = "STOPPED" -> {"READY", "IDLE"}
       [] s = "ERROR" -> {"IDLE", "READY"}]

\* a faulty variant: every target is accepted
can_transition_any(current, target) == target \in AgentStates

can_transition(current, target) == target \in VALID_TRANSITIONS[current]

(***************************************************************************)
(* The model endpoint and the similarity scores, as the runner sees them.  *)
(***************************************************************************)
\* the action lists the model client returns
ModelBatches ==
  {<<>>, <<SliderOk>>, <<KeyOk, SliderOk>>, <<SliderOk, SliderUnknown>>, <<KeyBad>>}

\* LlmResponse: its actions and its stop flag
Responses ==
  {[actions |-> b, stop |-> FALSE] : b \in ModelBatches}
  \cup {[actions |-> b, stop |-> TRUE] : b \in {<<>>, <<SliderOk>>}}

\* overall scores, in thousandths
Scores == {500, 501}

\* ConvergenceDetector's defaults: window_size, and threshold in thousandths
WINDOW_SIZE == 5

THRESHOLD == 1

SeqMax(s) == CHOOSE x \in Range(s) : \A y \in Range(s) : y <= x

SeqMin(s) == CHOOSE x \in Range(s) : \A y \in Range(s) : x <= y

\* a faulty variant: a spread equal to the threshold counts as converged
ConvergedAtThreshold(hist) ==
  Len(hist) >= WINDOW_SIZE
  /\ LET recent == SubSeq(hist, Len(hist) - WINDOW_SIZE + 1, Len(hist))
     IN SeqMax(recent) - SeqMin(recent) <= THRESHOLD

\* a faulty variant: the last two scores are compared, whatever the window
ConvergedOnLastTwo(hist) ==
  Len(hist) >= 2 /\ hist[Len(hist)] - hist[Len(hist) - 1] \in {0}

\* ConvergenceDetector.add on the history that already holds the new score
Converged(hist) ==
  IF Len(hist) < WINDOW_SIZE
    THEN FALSE
    ELSE LET recent == SubSeq(hist, Len(hist) - WINDOW_SIZE + 1, Len(hist))
         IN SeqMax(recent) - SeqMin(recent) < THRESHOLD

(***************************************************************************)
(* JSON values as the model client sees them after json.loads.  Numbers    *)
(* are kept in hundredths.                                                 *)
(***************************************************************************)
Str(s) == [t |-> "str", s |-> s]

Num(n) == [t |-> "num", n |-> n]

Bool(b) == [t |-> "bool", b |-> b]

Null == [t |-> "null"]

List(items) == [t |-> "list", items |-> items]

Obj(f) == [t |-> "obj", f |-> f]

EmptyObj == Obj([k \in {} |-> Null])

\* Python's truth value of a JSON value
Truthy(v) ==
  CASE v.t = "null" -> FALSE
    [] v.t = "str" -> v.s # ""
    [] v.t = "num" -> v.n # 0
    [] v.t = "bool" -> v.b
    [] v.t = "list" -> v.items # <<>>
    [] v.t = "obj" -> DOMAIN v.f # {}

\* dict.get(key): None for an absent key
GetJ(o, k) == IF k \in DOMAIN o.f THEN o.f[k] ELSE Null

\* Python's a or b
OrJ(a, b) == IF Truthy(a) THEN a ELSE b

Has(o, k) == k \in DOMAIN o.f

\* the strings float() can read, and the numbers they denote
NumericStrings == [s \in {"0.5", "1"} |-> IF s = "0.5" THEN 50 ELSE 100]

\* float(v): the number, or the exception it raises
ToFloat(v) ==
  CASE v.t = "num" -> [exc |-> "", n |-> v.n]
    [] v.t = "bool" -> [exc |-> "", n |-> IF v.b THEN 100 ELSE 0]
    [] v.t = "str" -> IF v.s \in DOMAIN NumericStrings
                        THEN [exc |-> "", n |-> NumericStrings[v.s]]
                        ELSE [exc |-> "ValueError", n |-> 0]
    [] OTHER -> [exc |-> "TypeError", n |-> 0]

\* str(v)
StrOf(v) ==
  CASE v.t = "str" -> v.s
    [] v.t = "num" -> IF v.n = 100 THEN "1" ELSE "number"
    [] v.t = "bool" -> IF v.b THEN "True" ELSE "False"
    [] v.t = "null" -> "None"
    [] OTHER -> "repr"

\* bool(v)
ToBool(v) == Truthy(v)

(***************************************************************************)
(* LlmClient._normalize_response.                                          *)
(***************************************************************************)
SchemaKeys == {"summary", "actions", "stop", "confidence"}

Raise(exc) == [exc |-> exc, v |-> Null]

Return(v) == [exc |-> "", v |-> v]

\* m with key k set to v
Put(m, k, v) == [x \in DOMAIN m \cup {k} |-> IF x = k THEN v ELSE m[x]]

\* a faulty variant of the set_slider branch: params is not consulted and the
\* value is copied as it was given
NormSliderAsGiven(raw, params, base) ==
  Return(Obj(Put(Put(base, "target", OrJ(GetJ(raw, "target"), Str("unknown"))),
                 "value", GetJ(raw, "value"))))

\* the set_slider branch
NormSlider(raw, params, base) ==
  IF params.t # "obj"
    THEN Raise("AttributeError")
    ELSE LET slider == OrJ(GetJ(params, "slider"), GetJ(raw, "target"))
             target == StrOf(OrJ(slider, Str("unknown")))
             value == IF GetJ(params, "value").t = "null"
                        THEN GetJ(raw, "value") ELSE GetJ(params, "value")
             withTarget == Put(base, "target", Str(target))
         IN IF value.t = "null"
              THEN Return(Obj(withTarget))
              ELSE IF ToFloat(value).exc # ""
                THEN Raise(ToFloat(value).exc)
                ELSE Return(Obj(Put(withTarget, "value", Num(ToFloat(value).n))))

\* the drag branch: dx and dy from params.start/params.end, then from params
NormDrag(raw, params, base) ==
  IF params.t # "obj"
    THEN Raise("AttributeError")
    ELSE LET withTarget == Put(base, "target", OrJ(GetJ(raw, "target"), Str("canvas")))
             start == OrJ(GetJ(params, "start"), EmptyObj)
             end == OrJ(GetJ(params, "end"), EmptyObj)
             both == start.t = "obj" /\ end.t = "obj"
             axis(m, a, d) ==
               IF both /\ Has(start, a) /\ Has(end, a)
                 THEN Put(m, d, Num(end.f[a].n - start.f[a].n)) ELSE m
             fromEnds == axis(axis(withTarget, "x", "dx"), "y", "dy")
             bad(d) == Has(params, d) /\ ToFloat(params.f[d]).exc # ""
             direct(m, d) ==
               IF Has(params, d) THEN Put(m, d, Num(ToFloat(params.f[d]).n)) ELSE m
         IN IF both /\ \E a \in {"x", "y"} :
                         Has(start, a) /\ Has(end, a)
                         /\ (start.f[a].t # "num" \/ end.f[a].t # "num")
              THEN Raise("TypeError")
            ELSE IF bad("dx") THEN Raise(ToFloat(params.f["dx"]).exc)
            ELSE IF bad("dy") THEN Raise(ToFloat(params.f["dy"]).exc)
            ELSE Return(Obj(direct(direct(fromEnds, "dx"), "dy")))

\* the keypress branch
NormKeypress(raw, params, base) ==
  IF params.t # "obj"
    THEN Raise("AttributeError")
    ELSE LET withTarget == Put(base, "target", OrJ(GetJ(raw, "target"), Str("keyboard")))
             keys == OrJ(GetJ(params, "keys"), GetJ(raw, "keys"))
         IN IF keys.t = "list"
              THEN Return(Obj(Put(withTarget, "keys",
                                  List([k \in 1..Len(keys.items) |-> Str(StrOf(keys.items[k]))]))))
              ELSE Return(Obj(withTarget))

\* one dict entry of the actions list
NormEntry(raw) ==
  LET action_type == OrJ(GetJ(raw, "type"), GetJ(raw, "action"))
      params == OrJ(OrJ(GetJ(raw, "params"), GetJ(raw, "parameters")), EmptyObj)
      reason == OrJ(OrJ(GetJ(raw, "reason"), GetJ(raw, "justification")),
                    Str("Auto-converted from legacy action format."))
      base == [k \in {"type", "target", "reason"} |->
                 CASE k = "type" -> action_type
                   [] k = "target" -> Str("")
                   [] k = "reason" -> reason]
      built == CASE action_type = Str("set_slider") -> NormSlider(raw, params, base)
                 [] action_type = Str("drag") -> NormDrag(raw, params, base)
                 [] action_type = Str("keypress") -> NormKeypress(raw, params, base)
                 [] OTHER -> Return(Obj(Put(base, "target",
                                            OrJ(GetJ(raw, "target"), Str("unknown")))))
  IN IF built.exc # "" THEN built
     ELSE IF ~Truthy(action_type) THEN Raise("ValueError")
     ELSE built

\* normalized_actions.append(normalized), unless the entry or a later one raised
Appended(first, rest) ==
  IF first.exc # "" THEN Raise(first.exc)
  ELSE IF rest.exc # "" THEN rest
  ELSE Return(<<first.v>> \o rest.v)

\* one turn of the loop: an entry that is not a dict is passed over
Turn(entry, rest) == IF entry.t # "obj" THEN rest ELSE Appended(NormEntry(entry), rest)

\* the loop over the actions list
RECURSIVE NormEntries(_)
NormEntries(items) ==
  IF items = <<>> THEN Return(<<>>) ELSE Turn(Head(items), NormEntries(Tail(items)))

\* a faulty variant: whatever comes is answered with an empty, defaulted response
normalize_defaulting(data) ==
  Return(Obj([k \in SchemaKeys |->
                CASE k = "summary" -> Str("Auto-normalized response.")
                  [] k = "actions" -> List(<<>>)
                  [] k = "stop" -> Bool(FALSE)
                  [] k = "confidence" -> Num(50)]))

normalize_response(data) ==
  IF data.t # "obj"
    THEN Raise("ValueError")
  ELSE IF SchemaKeys \subseteq DOMAIN data.f
    THEN Return(data)
  ELSE LET given == GetJ(data, "actions")
           actions == IF given.t = "null" /\ Has(data, "action") THEN List(<<data>>) ELSE given
       IN IF actions.t # "list"
            THEN Raise("ValueError")
          ELSE LET entries == NormEntries(actions.items)
                   confidence == IF Has(data, "confidence")
                                   THEN ToFloat(data.f["confidence"])
                                   ELSE [exc |-> "", n |-> 50]
               IN IF entries.exc # "" THEN Raise(entries.exc)
                  ELSE IF confidence.exc # "" THEN Raise(confidence.exc)
                  ELSE Return(Obj(
                         [k \in SchemaKeys |->
                            CASE k = "summary" ->
                                   OrJ(GetJ(data, "summary"), Str("Auto-normalized response."))
                              [] k = "actions" -> List(entries.v)
                              [] k = "stop" ->
                                   Bool(IF Has(data, "stop") THEN ToBool(data.f["stop"]) ELSE FALSE)
                              [] k = "confidence" -> Num(confidence.n)]))

(***************************************************************************)
(* ACTION_SCHEMA and LlmClient._validate.                                  *)
(***************************************************************************)
\* key k, when present in the object, holds a value of type ty
Typed(o, k, ty) == Has(o, k) => o.f[k].t = ty

ActionSchemaValid(a) ==
  /\ a.t = "obj"
  /\ {"type", "target", "reason"} \subseteq DOMAIN a.f
  /\ \A k \in {"type", "target", "reason"} : Typed(a, k, "str")
  /\ \A k \in {"dx", "dy", "value"} : Typed(a, k, "num")
  /\ Typed(a, "keys", "list")
  /\ Has(a, "keys") /\ a.f["keys"].t = "list"
       => \A k \in 1..Len(a.f["keys"].items) : a.f["keys"].items[k].t = "str"

SchemaValid(data) ==
  /\ data.t = "obj"
  /\ SchemaKeys \subseteq DOMAIN data.f
  /\ data.f["summary"].t = "str"
  /\ data.f["actions"].t = "list"
  /\ \A k \in 1..Len(data.f["actions"].items) : ActionSchemaValid(data.f["actions"].items[k])
  /\ data.f["stop"].t = "bool"
  /\ data.f["confidence"].t = "num"
  /\ data.f["confidence"].n >= 0
  /\ data.f["confidence"].n <= 100

(***************************************************************************)
(* LlmClient.request_actions: the retry loop over the endpoint's replies.  *)
(***************************************************************************)
\* LlmClient.__init__: max_retries, and min_confidence in hundredths
MAX_RETRIES == 2

MIN_CONFIDENCE == 30

RateLimitError ==
  [type |-> "ValueError",
   message |-> "Rate limited by OpenAI API (HTTP 429). Please wait and try again."]

InvalidResponseError ==
  [type |-> "ValueError", message |-> "Invalid LLM response after retries"]

\* an exception request_actions does not catch
Uncaught(exc) == [type |-> exc, message |-> ""]

NoError == [type |-> "", message |-> ""]

\* the result of a call that has not returned
NoResponse == [none |-> TRUE]

LlmResponse(raw, actions, stop, confidence) ==
  [raw |-> raw, actions |-> actions, stop |-> stop, confidence |-> confidence]

\* what the normalization of the current attempt gave, when it has not run
NotRun == [exc |-> "NotRun", v |-> Null]

\* a reply of the endpoint: what happened, and the parsed content if any
Reply(kind, content) == [kind |-> kind, content |-> content]

LlmIdle ==
  [pc |-> "idle", attempt |-> 0, requests |-> 0, rate_limited |-> FALSE,
   last_error |-> "", seen |-> <<>>, reply |-> Reply("", Null), norm |-> NotRun,
   result |-> NoResponse, error |-> NoError, handed |-> Null]

\* continue, or the end of the loop body: the next attempt
NextAttempt(l) == [l EXCEPT !.attempt = @ + 1]

\* break
Break(l) == [l EXCEPT !.pc = "broke"]

\* a faulty variant: the 429 status is waited out but not remembered
On429Forgetting(l, header_ok) == NextAttempt(l)

\* status 429: remember it, wait as Retry-After says or by backoff, continue;
\* a Retry-After header float() cannot read raises ValueError, which the
\* parsing handler catches
On429(l, header_ok) ==
  IF header_ok
    THEN NextAttempt([l EXCEPT !.rate_limited = TRUE])
    ELSE NextAttempt([l EXCEPT !.rate_limited = TRUE, !.last_error = "ValueError"])

\* requests.exceptions.Timeout: back off and continue
OnTimeout(l) == NextAttempt([l EXCEPT !.last_error = "Timeout"])

\* requests.HTTPError: 429 is remembered and retried, any other status breaks
OnHttpError(l, status) ==
  IF status = 429
    THEN NextAttempt([l EXCEPT !.last_error = "HTTPError", !.rate_limited = TRUE])
    ELSE Break([l EXCEPT !.last_error = "HTTPError"])

\* any other requests.RequestException breaks
OnRequestException(l) == Break([l EXCEPT !.last_error = "RequestException"])

\* json.JSONDecodeError, KeyError, ValidationError, ValueError: retry with the
\* sterner prompt
OnParseError(l, exc) == NextAttempt([l EXCEPT !.last_error = exc])

\* a faulty variant: the response is returned whatever its confidence
GateNever(resp) == resp

\* the confidence gate
Gate(resp) ==
  IF resp.confidence.n < MIN_CONFIDENCE
    THEN LlmResponse(resp.raw, List(<<>>), Bool(TRUE), resp.confidence)
    ELSE resp

\* a faulty variant: the validation accepts everything
ValidateAnything(data) == TRUE

\* LlmClient._validate: ValueError unless the schema is met
ValidateOk(data) == SchemaValid(data)

\* the content of the first choice, parsed: normalize, validate, gate, return
OnContent(l, parsed) ==
  LET norm == normalize_response(parsed)
      withNorm == [l EXCEPT !.norm = norm]
  IN IF norm.exc \in {"ValueError", "KeyError"}
       THEN OnParseError(withNorm, norm.exc)
     ELSE IF norm.exc # ""
       THEN [withNorm EXCEPT !.pc = "raised", !.error = Uncaught(norm.exc)]
     ELSE IF ~ValidateOk(norm.v)
       THEN OnParseError(withNorm, "ValueError")
     ELSE [withNorm EXCEPT
             !.pc = "returned",
             !.result = Gate(LlmResponse(norm.v, norm.v.f["actions"], norm.v.f["stop"],
                                         norm.v.f["confidence"]))]

(***************************************************************************)
(* The endpoint's replies.                                                 *)
(***************************************************************************)
EGood ==
  Obj([type |-> Str("set_slider"), target |-> Str("lift"), value |-> Num(100),
       reason |-> Str("r")])

ENoType == Obj([target |-> Str("lift"), reason |-> Str("r")])

ENullType == Obj([type |-> Null, target |-> Str("lift"), reason |-> Str("r")])

EEmptyType == Obj([type |-> Str(""), target |-> Str("lift"), reason |-> Str("r")])

ENotObject == Str("drag")

\* a response with the four keys of the schema
Complete(actions, stop, confidence) ==
  Obj([summary |-> Str("s"), actions |-> actions, stop |-> Bool(stop),
       confidence |-> Num(confidence)])

CompleteResponses ==
  {Complete(List(a), st, c) : a \in {<<>>, <<EGood>>}, st \in BOOLEAN, c \in {20, 30, 90}}
  \cup {Complete(List(<<EGood, e>>), FALSE, 90) :
          e \in {ENoType, ENullType, EEmptyType, ENotObject}}
  \cup {Complete(List(<<ENoType>>), FALSE, 20), Complete(List(<<EGood>>), FALSE, 150),
        Complete(Null, FALSE, 90)}

\* single legacy action objects
LegacySingles ==
  {Obj([action |-> Str("set_slider"),
        params |-> Obj([slider |-> Str("lift"), value |-> Str("0.5")]),
        reason |-> Str("legacy")]),
   Obj([action |-> Str("set_slider"), target |-> Str("lift"), value |-> Num(100)]),
   Obj([action |-> Str("set_slider"),
        params |-> Obj([slider |-> Str("gain"), value |-> Str("1")]),
        target |-> Str("lift"), summary |-> Str("mine"), stop |-> Bool(TRUE),
        confidence |-> Num(20)]),
   Obj([action |-> Str("set_slider"), params |-> Obj([value |-> Num(50)])]),
   Obj([action |-> Str("set_slider"),
        params |-> Obj([slider |-> Str("lift"), value |-> Str("abc")])]),
   Obj([action |-> Str("set_slider"), params |-> Str("lift")]),
   Obj([action |-> Str("drag"), params |-> Obj([dx |-> Num(1000)])]),
   Obj([action |-> Str("drag"), params |-> Obj([slider |-> Str("gain")]),
        target |-> Str("lift")]),
   Obj([action |-> Str("keypress"), target |-> Str("keyboard"),
        keys |-> List(<<Str("ctrl"), Str("z")>>)]),
   Obj([action |-> Str("wheel"), target |-> Str("lift")]),
   Obj([action |-> Str(""), target |-> Str("lift")]),
   Obj([action |-> Null, target |-> Str("lift")])}

\* responses with an actions list but not all four keys
LegacyLists ==
  {Obj([actions |-> List(a), confidence |-> Num(90)]) :
     a \in {<<>>, <<EGood>>, <<ENotObject, EGood>>, <<EGood, ENoType>>,
            <<EGood, EEmptyType>>, <<ENotObject>>}}

\* responses no action can be derived from
Underivable ==
  {Obj([summary |-> Str("missing")]), Obj([actions |-> Str("drag"), stop |-> Bool(FALSE)]),
   List(<<EGood>>), Str("drag"), Null}

ParsedResponses == CompleteResponses \cup LegacySingles \cup LegacyLists \cup Underivable

\* the endpoint's replies: transport failures, and contents
Replies ==
  {Reply(k, Null) :
     k \in {"timeout", "status_429", "status_429_bad_retry_after", "http_error_429",
            "http_error", "request_exception", "bad_json", "no_choices"}}
  \cup {Reply("content", c) : c \in ParsedResponses}

\* one pass of the loop body on a reply
Handle(l, reply) ==
  CASE reply.kind = "timeout" -> OnTimeout(l)
    [] reply.kind = "status_429" -> On429(l, TRUE)
    [] reply.kind = "status_429_bad_retry_after" -> On429(l, FALSE)
    [] reply.kind = "http_error_429" -> OnHttpError(l, 429)
    [] reply.kind = "http_error" -> OnHttpError(l, 500)
    [] reply.kind = "request_exception" -> OnRequestException(l)
    [] reply.kind = "bad_json" -> OnParseError(l, "JSONDecodeError")
    [] reply.kind = "no_choices" -> OnParseError(l, "KeyError")
    [] reply.kind = "content" -> OnContent(l, reply.content)

(***************************************************************************)
(* The state.                                                              *)
(***************************************************************************)
VARIABLES
  state,            \* AgentStateMachine._state
  stop_event,       \* ActionExecutor._stop_event
  paused,           \* ActionExecutor._paused
  focus,            \* the owner of the OS input focus
  iteration,        \* AgentController.iteration
  current_state,    \* AgentController.current_state, the dict the runner mutates
  out,              \* the synthetic input events the last step sent
  log,              \* the messages the last step logged
  ui,               \* the UI thread's call of stop or transition: its position,
                    \* its target, and whether its last transition raised
  pc,               \* each thread's position
  actions,          \* each thread's batch: the argument of execute_actions
  i,                \* execute_actions: the loop index, from 1
  executed,         \* execute_actions: the list it returns
  fail_fast,        \* execute_actions: its argument
  rollback_on_fail, \* execute_actions: its argument
  calibration,      \* TRUE for a calibration profile, FALSE for None
  undo_calls,       \* _rollback_actions: the undo_last calls made so far
  err,              \* the exception a thread's call has raised, "" for none
  it,               \* IterationRunner.run: its local iteration counter
  continuous,       \* IterationRunner.run: its argument
  history,          \* ConvergenceDetector._history of the run's detector
  llm,              \* a request_actions call of the model client: its position, its
                    \* locals, the endpoint's replies so far and its outcome
  unit              \* an object called on its own, outside a run: a score being
                    \* normalized, a ConvergenceDetector, a CalibrationProfile

execVars == <<actions, i, executed, fail_fast, rollback_on_fail, calibration, undo_calls, err>>

runVars == <<it, continuous, history>>

ctlVars == <<state, iteration, current_state, ui>>

vars == <<state, stop_event, paused, focus, iteration, current_state, out, log, ui, pc,
          actions, i, executed, fail_fast, rollback_on_fail, calibration, undo_calls,
          err, it, continuous, history, llm, unit>>

NoState == [c \in {} |-> 0]

\* no object under a unit-level call
NoUnit == [op |-> "none"]

\* the mark of the runs that are followed up to MaxLongPasses passes
LongRun == [op |-> "long_run"]

\* the UI thread between two calls
UiIdle == [pc |-> "idle", op |-> "", target |-> "", raised |-> FALSE]

\* a step that sends no input and logs nothing
Quiet == out' = <<>> /\ log' = <<>>

Init ==
  /\ state = "IDLE"
  /\ stop_event = FALSE
  /\ paused = FALSE
  /\ focus \in FocusOwners
  /\ iteration = 0
  /\ current_state = NoState
  /\ out = <<>>
  /\ log = <<>>
  /\ ui = UiIdle
  /\ pc = [t \in Threads |-> "idle"]
  /\ actions = [t \in Threads |-> <<>>]
  /\ i = [t \in Threads |-> 1]
  /\ executed = [t \in Threads |-> <<>>]
  /\ fail_fast = [t \in Threads |-> TRUE]
  /\ rollback_on_fail = [t \in Threads |-> TRUE]
  /\ calibration = [t \in Threads |-> TRUE]
  /\ undo_calls = [t \in Threads |-> 0]
  /\ err = [t \in Threads |-> ""]
  /\ it = [t \in Threads |-> 0]
  /\ continuous = [t \in Threads |-> FALSE]
  /\ history = [t \in Threads |-> <<>>]
  /\ llm = LlmIdle
  /\ unit = NoUnit

(***************************************************************************)
(* ActionExecutor.execute_actions, one action of the batch at a time.      *)
(***************************************************************************)
\* where a thread continues when execute_actions returns: the runner goes on
\* with the pass, the direct caller holds the returned list
AfterReturn(t) == IF t = Direct THEN "ex_ret" ELSE "r_upd"

\* a faulty variant: the loop goes on after the raise
AfterRaiseResumes(t) == "e_top"

\* where a thread continues when execute_actions raises ActionExecutionError:
\* the runner's except clause catches it
AfterRaise(t) == IF t = Direct THEN "ex_raised" ELSE "r_ret"

\* a faulty variant of the loop top: it does not look at the stop flag
ExecTopNoStopCheck(t) ==
  /\ pc[t] = "e_top"
  /\ pc' = [pc EXCEPT ![t] = IF i[t] > Len(actions[t]) THEN AfterReturn(t) ELSE "e_wait"]
  /\ Quiet
  /\ UNCHANGED <<unit, llm, stop_event, paused, focus, execVars, runVars, ctlVars>>

\* the top of the loop: the loop ends after the last action, and breaks when
\* the stop flag is set
ExecTop(t) ==
  /\ pc[t] = "e_top"
  /\ pc' = [pc EXCEPT ![t] = IF i[t] > Len(actions[t]) \/ stop_event
                               THEN AfterReturn(t) ELSE "e_wait"]
  /\ Quiet
  /\ UNCHANGED <<unit, llm, stop_event, paused, focus, execVars, runVars, ctlVars>>

\* _wait_if_paused: polls while paused and not stopped
\* a faulty variant of the pause wait: it does not look at the stop flag
ExecWaitIgnoringStop(t) ==
  /\ pc[t] = "e_wait"
  /\ ~paused
  /\ pc' = [pc EXCEPT ![t] = "e_focus"]
  /\ Quiet
  /\ UNCHANGED <<unit, llm, stop_event, paused, focus, execVars, runVars, ctlVars>>

\* _wait_if_paused: it returns when the executor is not paused or is stopped
ExecWait(t) ==
  /\ pc[t] = "e_wait"
  /\ ~paused \/ stop_event
  /\ pc' = [pc EXCEPT ![t] = "e_focus"]
  /\ Quiet
  /\ UNCHANGED <<unit, llm, stop_event, paused, focus, execVars, runVars, ctlVars>>

\* _try_focus: FALSE with no input sent when the window is not found or the
\* lookup fails; otherwise activate, press alt, activate, and report _has_focus
TryFocusOutcomes(owner) ==
  {[ok |-> FALSE, events |-> <<>>, focus |-> owner]}
  \cup {[ok |-> has_focus(f2), events |-> <<Hotkey(<<"alt">>, f1)>>, focus |-> f2] :
          f1 \in {owner, "resolve"}, f2 \in {owner, "resolve"}}

\* a faulty variant: under fail_fast a failed refocus attempt raises
ExecFocusRaising(t) ==
  /\ pc[t] = "e_focus"
  /\ IF has_focus(focus)
       THEN /\ pc' = [pc EXCEPT ![t] = "e_act"]
            /\ Quiet
            /\ UNCHANGED <<paused, focus>>
       ELSE \E o \in TryFocusOutcomes(focus) :
              /\ out' = o.events
              /\ log' = <<Msg(IF o.ok THEN "FOCUSED" ELSE "NOT_FOCUSED", NoAction)>>
              /\ focus' = o.focus
              /\ paused' = IF o.ok THEN paused ELSE TRUE
              /\ pc' = [pc EXCEPT ![t] = IF o.ok THEN "e_act"
                                         ELSE IF fail_fast[t] THEN AfterRaise(t)
                                         ELSE AfterReturn(t)]
  /\ UNCHANGED <<unit, llm, stop_event, execVars, runVars, ctlVars>>

\* the focus check before an action, with one refocus attempt; a failed
\* attempt sets the paused flag and ends the batch
ExecFocus(t) ==
  /\ pc[t] = "e_focus"
  /\ IF has_focus(focus)
       THEN /\ pc' = [pc EXCEPT ![t] = "e_act"]
            /\ Quiet
            /\ UNCHANGED <<paused, focus>>
       ELSE \E o \in TryFocusOutcomes(focus) :
              /\ out' = o.events
              /\ log' = <<Msg(IF o.ok THEN "FOCUSED" ELSE "NOT_FOCUSED", NoAction)>>
              /\ focus' = o.focus
              /\ paused' = IF o.ok THEN paused ELSE TRUE
              /\ pc' = [pc EXCEPT ![t] = IF o.ok THEN "e_act" ELSE AfterReturn(t)]
  /\ UNCHANGED <<unit, llm, stop_event, execVars, runVars, ctlVars>>

\* a faulty variant: the batch is read from its end
PayloadsReversed(t) == {actions[t][Len(actions[t]) + 1 - i[t]]}

\* the payloads position i of the batch can hold
Payloads(t) ==
  IF actions[t][i[t]] = Unread THEN RawActions ELSE {actions[t][i[t]]}

\* a faulty variant: every payload is logged as a parse failure, and yet counts
\* as executed
ActOutcomesCounted(raw, cal, at) ==
  {[events |-> <<>>, code |-> "", action |-> ParseAction(raw),
    log |-> <<Msg("E003", ParseAction(raw))>>]}

\* parse, clamp, validate and dispatch one payload: the events sent, the messages
\* logged, the error code ("" for success) and the Action.  An OS exception inside _execute
\* (pyautogui's fail-safe) cuts the events short and makes _execute return False.
ActOutcomes(raw, cal, at) ==
  IF ~ParseOk(raw)
    THEN {[events |-> <<>>, code |-> "E003", action |-> ParseAction(raw),
           log |-> <<Msg("E003", ParseAction(raw))>>]}
  ELSE LET action == clamp_drag(ParseAction(raw))
           v == validate(action, cal)
           plan == ExecutePlan(action, cal, at)
           dropped == IF DOMAIN raw \subseteq ActionFields
                        THEN <<>> ELSE <<Msg("IGNORED_FIELDS", action)>>
       IN IF ~v.ok
            THEN {[events |-> <<>>, code |-> v.code, action |-> action,
                   log |-> dropped \o <<Msg(v.code, action)>>]}
            ELSE {LET done == n = Len(plan.events) /\ plan.ok
                  IN [events |-> SubSeq(plan.events, 1, n),
                      code |-> IF done THEN "" ELSE "E004",
                      action |-> action,
                      log |-> dropped \o <<Msg("EXECUTING", action)>>
                              \o (IF done THEN <<>> ELSE <<Msg("E004", action)>>)] :
                    n \in 0..Len(plan.events)}

\* _rollback_actions does nothing without rollback_on_fail or executed actions
RollsBack(t) == rollback_on_fail[t] /\ executed[t] # <<>>

ExecAct(t) ==
  /\ pc[t] = "e_act"
  /\ \E raw \in Payloads(t) : \E o \in ActOutcomes(raw, calibration[t], focus) :
       /\ out' = o.events
       /\ log' = o.log
       /\ IF o.code = ""
            THEN /\ executed' = [executed EXCEPT ![t] = Append(@, o.action)]
                 /\ i' = [i EXCEPT ![t] = @ + 1]
                 /\ pc' = [pc EXCEPT ![t] = "e_top"]
                 /\ UNCHANGED err
          ELSE IF fail_fast[t]
            THEN /\ err' = [err EXCEPT ![t] = o.code]
                 /\ pc' = [pc EXCEPT ![t] = IF RollsBack(t) THEN "e_rb" ELSE AfterRaise(t)]
                 /\ UNCHANGED <<executed, i>>
          ELSE /\ i' = [i EXCEPT ![t] = @ + 1]
               /\ pc' = [pc EXCEPT ![t] = "e_top"]
               /\ UNCHANGED <<executed, err>>
  /\ UNCHANGED <<unit, llm, stop_event, paused, focus, actions, fail_fast, rollback_on_fail,
                 calibration, undo_calls, runVars, ctlVars>>

\* undo_last: one ctrl+z, to whatever window has the focus
UndoEvents(at) == <<Hotkey(<<"ctrl", "z">>, at)>>

\* a faulty variant: the rollback loop ends after its first call
RollbackEndsAtOnce(t, raised) == TRUE

\* whether the rollback loop ends after a call: the last executed action is
\* reached, or the call raised
RollbackEnds(t, raised) == raised \/ undo_calls[t] + 1 >= Len(executed[t])

\* one turn of the loop of _rollback_actions: an undo_last call, which may raise
ExecRollback(t) ==
  /\ pc[t] = "e_rb"
  /\ \E raised \in BOOLEAN :
       /\ out' = IF raised THEN <<>> ELSE UndoEvents(focus)
       /\ log' = IF raised THEN <<Msg("ROLLBACK_FAILED", NoAction)>> ELSE <<>>
       /\ undo_calls' = [undo_calls EXCEPT ![t] = @ + 1]
       /\ pc' = [pc EXCEPT ![t] = IF RollbackEnds(t, raised) THEN AfterRaise(t) ELSE "e_rb"]
  /\ UNCHANGED <<unit, llm, stop_event, paused, focus, actions, i, executed, fail_fast,
                 rollback_on_fail, calibration, err, runVars, ctlVars>>

\* a faulty variant: a new call lifts the pause
CallExecuteUnpausing ==
  /\ pc[Direct] \in {"idle", "ex_ret", "ex_raised"}
  /\ \E n \in 0..MaxBatch, ff \in BOOLEAN, rb \in BOOLEAN, cal \in BOOLEAN :
       /\ actions' = [actions EXCEPT ![Direct] = [k \in 1..n |-> Unread]]
       /\ fail_fast' = [fail_fast EXCEPT ![Direct] = ff]
       /\ rollback_on_fail' = [rollback_on_fail EXCEPT ![Direct] = rb]
       /\ calibration' = [calibration EXCEPT ![Direct] = cal]
  /\ i' = [i EXCEPT ![Direct] = 1]
  /\ executed' = [executed EXCEPT ![Direct] = <<>>]
  /\ undo_calls' = [undo_calls EXCEPT ![Direct] = 0]
  /\ err' = [err EXCEPT ![Direct] = ""]
  /\ pc' = [pc EXCEPT ![Direct] = "e_top"]
  /\ paused' = FALSE
  /\ Quiet
  /\ UNCHANGED <<unit, llm, stop_event, focus, runVars, ctlVars>>

\* a direct call of execute_actions
CallExecute ==
  /\ pc[Direct] \in {"idle", "ex_ret", "ex_raised"}
  /\ \E n \in 0..MaxBatch, ff \in BOOLEAN, rb \in BOOLEAN, cal \in BOOLEAN :
       /\ actions' = [actions EXCEPT ![Direct] = [k \in 1..n |-> Unread]]
       /\ fail_fast' = [fail_fast EXCEPT ![Direct] = ff]
       /\ rollback_on_fail' = [rollback_on_fail EXCEPT ![Direct] = rb]
       /\ calibration' = [calibration EXCEPT ![Direct] = cal]
  /\ i' = [i EXCEPT ![Direct] = 1]
  /\ executed' = [executed EXCEPT ![Direct] = <<>>]
  /\ undo_calls' = [undo_calls EXCEPT ![Direct] = 0]
  /\ err' = [err EXCEPT ![Direct] = ""]
  /\ pc' = [pc EXCEPT ![Direct] = "e_top"]
  /\ Quiet
  /\ UNCHANGED <<unit, llm, stop_event, paused, focus, runVars, ctlVars>>

(***************************************************************************)
(* The environment: the window focus, the global stop hotkey, the pause    *)
(* switch and the standalone undo.                                         *)
(***************************************************************************)
FocusChange ==
  /\ \E f \in FocusOwners \ {focus} : focus' = f
  /\ Quiet
  /\ UNCHANGED <<unit, llm, stop_event, paused, pc, execVars, runVars, ctlVars>>

\* _on_key on the listener thread: trigger_stop, then the stop callback
OnKey ==
  /\ ~stop_event
  /\ stop_event' = TRUE
  /\ Quiet
  /\ UNCHANGED <<unit, llm, paused, focus, pc, execVars, runVars, ctlVars>>

\* a faulty variant: resuming clears the stop flag
SetPausedClearingStop ==
  /\ \E b \in BOOLEAN \ {paused} : paused' = b /\ stop_event' = (b /\ stop_event)
  /\ Quiet
  /\ UNCHANGED <<unit, llm, focus, pc, execVars, runVars, ctlVars>>

\* set_paused
SetPaused ==
  /\ \E b \in BOOLEAN \ {paused} : paused' = b
  /\ Quiet
  /\ UNCHANGED <<unit, llm, stop_event, focus, pc, execVars, runVars, ctlVars>>

\* undo_last called on its own (AgentController.rollback)
Rollback ==
  /\ out' = UndoEvents(focus)
  /\ log' = <<>>
  /\ UNCHANGED <<unit, llm, stop_event, paused, focus, pc, execVars, runVars, ctlVars>>

ExecStep(t) ==
  \/ ExecTop(t)
  \/ ExecWait(t)
  \/ ExecFocus(t)
  \/ ExecAct(t)
  \/ ExecRollback(t)

NextExec ==
  \/ CallExecute
  \/ ExecStep(Direct)
  \/ FocusChange
  \/ OnKey
  \/ SetPaused
  \/ Rollback

SpecExec == Init /\ [][NextExec]_vars

(***************************************************************************)
(* execute_actions called with a batch of one drag whose deltas the caller *)
(* has fixed: below, at and above the clamp limits, and null.              *)
(***************************************************************************)
Deltas == {-500, -201, -200, -1, 0, 7, 200, 201, 500}

OptDeltas == {{}} \cup {{v} : v \in Deltas}

Drags ==
  {[type |-> {"drag"}, target |-> {"lift"}, dx |-> dx, dy |-> dy, reason |-> {"r"}] :
     dx \in OptDeltas, dy \in OptDeltas}

InitClamp ==
  /\ state = "IDLE"
  /\ stop_event = FALSE
  /\ paused = FALSE
  /\ focus \in FocusOwners
  /\ iteration = 0
  /\ current_state = NoState
  /\ out = <<>>
  /\ log = <<>>
  /\ ui = UiIdle
  /\ pc = [t \in Threads |-> IF t = Direct THEN "e_top" ELSE "idle"]
  /\ \E raw \in Drags : actions = [t \in Threads |-> IF t = Direct THEN <<raw>> ELSE <<>>]
  /\ i = [t \in Threads |-> 1]
  /\ executed = [t \in Threads |-> <<>>]
  /\ fail_fast = [t \in Threads |-> TRUE]
  /\ rollback_on_fail = [t \in Threads |-> TRUE]
  /\ calibration = [t \in Threads |-> TRUE]
  /\ undo_calls = [t \in Threads |-> 0]
  /\ err = [t \in Threads |-> ""]
  /\ it = [t \in Threads |-> 0]
  /\ continuous = [t \in Threads |-> FALSE]
  /\ history = [t \in Threads |-> <<>>]
  /\ llm = LlmIdle
  /\ unit = NoUnit

NextClamp ==
  \/ ExecTop(Direct)
  \/ ExecWait(Direct)
  \/ ExecFocus(Direct)
  \/ ExecAct(Direct)

SpecClamp == InitClamp /\ [][NextClamp]_vars

(***************************************************************************)
(* execute_actions called after set_paused(True), with nobody resuming:    *)
(* only the stop flag ends the pause wait.                                 *)
(***************************************************************************)
InitPause ==
  /\ state = "IDLE"
  /\ stop_event = FALSE
  /\ paused = TRUE
  /\ focus \in FocusOwners
  /\ iteration = 0
  /\ current_state = NoState
  /\ out = <<>>
  /\ log = <<>>
  /\ ui = UiIdle
  /\ pc = [t \in Threads |-> "idle"]
  /\ actions = [t \in Threads |-> <<>>]
  /\ i = [t \in Threads |-> 1]
  /\ executed = [t \in Threads |-> <<>>]
  /\ fail_fast = [t \in Threads |-> TRUE]
  /\ rollback_on_fail = [t \in Threads |-> TRUE]
  /\ calibration = [t \in Threads |-> TRUE]
  /\ undo_calls = [t \in Threads |-> 0]
  /\ err = [t \in Threads |-> ""]
  /\ it = [t \in Threads |-> 0]
  /\ continuous = [t \in Threads |-> FALSE]
  /\ history = [t \in Threads |-> <<>>]
  /\ llm = LlmIdle
  /\ unit = NoUnit

NextPause ==
  \/ CallExecute
  \/ ExecTop(Direct)
  \/ ExecWait(Direct)
  \/ ExecFocus(Direct)
  \/ ExecAct(Direct)
  \/ FocusChange
  \/ OnKey

SpecPause == InitPause /\ [][NextPause]_vars

(***************************************************************************)
(* AgentController.run_iteration on a task-queue thread.  transition is    *)
(* two steps, the can_transition check and the assignment of _state, so    *)
(* that calls on different threads interleave as the interpreter allows.   *)
(***************************************************************************)
\* the positions at which a thread is inside IterationRunner.run
RunnerPcs ==
  {"r_top", "r_cap", "r_req", "e_top", "e_wait", "e_focus", "e_act", "e_rb", "r_upd", "r_ret"}

Finished == {"idle", "returned", "raised"}

\* TaskQueue.run starts a thread that calls run_iteration
BeginRun(t) ==
  /\ pc' = [pc EXCEPT ![t] = "ri_state"]
  /\ \E c \in BOOLEAN : continuous' = [continuous EXCEPT ![t] = c]
  /\ \E cal \in BOOLEAN : calibration' = [calibration EXCEPT ![t] = cal]
  /\ err' = [err EXCEPT ![t] = ""]
  /\ Quiet
  /\ UNCHANGED <<unit, llm, stop_event, paused, focus, actions, i, executed, fail_fast,
                 rollback_on_fail, undo_calls, it, history, ctlVars>>

\* a run is started while no other run_iteration call is in progress
StartRun(t) ==
  /\ \A u \in Workers : pc[u] \in Finished
  /\ BeginRun(t)

\* a run is started at any time, whatever the other threads are doing
StartRunAny(t) ==
  /\ pc[t] = "idle"
  /\ BeginRun(t)

\* a faulty variant: the call goes for RUNNING whatever the state is
RiStateSkippingReady(t) ==
  /\ pc[t] = "ri_state"
  /\ pc' = [pc EXCEPT ![t] = "ri_running_chk"]
  /\ Quiet
  /\ UNCHANGED <<unit, llm, stop_event, paused, focus, execVars, runVars, ctlVars>>

\* if self.state == AgentState.IDLE
RiState(t) ==
  /\ pc[t] = "ri_state"
  /\ pc' = [pc EXCEPT ![t] = IF state = "IDLE" THEN "ri_ready_chk" ELSE "ri_running_chk"]
  /\ Quiet
  /\ UNCHANGED <<unit, llm, stop_event, paused, focus, execVars, runVars, ctlVars>>

\* the transition calls of run_iteration: the target, and where the thread goes
\* on when the check passes and when it raises ValueError
CheckSites ==
  [p \in {"ri_ready_chk", "ri_running_chk", "ri_stopped_chk", "ri_readyend_chk", "ri_error_chk"} |->
     CASE p = "ri_ready_chk" -> [target |-> "READY", ok |-> "ri_ready_set", fail |-> "raised"]
       [] p = "ri_running_chk" -> [target |-> "RUNNING", ok |-> "ri_running_set", fail |-> "raised"]
       [] p = "ri_stopped_chk" -> [target |-> "STOPPED", ok |-> "ri_stopped_set", fail |-> "ri_error_chk"]
       [] p = "ri_readyend_chk" -> [target |-> "READY", ok |-> "ri_readyend_set", fail |-> "ri_error_chk"]
       [] p = "ri_error_chk" -> [target |-> "ERROR", ok |-> "ri_error_set", fail |-> "raised"]]

AssignSites ==
  [p \in {"ri_ready_set", "ri_running_set", "ri_stopped_set", "ri_readyend_set", "ri_error_set"} |->
     CASE p = "ri_ready_set" -> [target |-> "READY", next |-> "ri_running_chk"]
       [] p = "ri_running_set" -> [target |-> "RUNNING", next |-> "ri_call"]
       [] p = "ri_stopped_set" -> [target |-> "STOPPED", next |-> "returned"]
       [] p = "ri_readyend_set" -> [target |-> "READY", next |-> "returned"]
       [] p = "ri_error_set" -> [target |-> "ERROR", next |-> "raised"]]

\* transition: if not self.can_transition(target): raise ValueError
RiCheck(t) ==
  /\ pc[t] \in DOMAIN CheckSites
  /\ LET site == CheckSites[pc[t]]
     IN IF can_transition(state, site.target)
          THEN /\ pc' = [pc EXCEPT ![t] = site.ok]
               /\ UNCHANGED err
          ELSE /\ pc' = [pc EXCEPT ![t] = site.fail]
               /\ err' = [err EXCEPT ![t] = "ValueError"]
  /\ Quiet
  /\ UNCHANGED <<unit, llm, stop_event, paused, focus, actions, i, executed, fail_fast,
                 rollback_on_fail, calibration, undo_calls, runVars, ctlVars>>

\* transition: self._state = target
RiAssign(t) ==
  /\ pc[t] \in DOMAIN AssignSites
  /\ state' = AssignSites[pc[t]].target
  /\ pc' = [pc EXCEPT ![t] = AssignSites[pc[t]].next]
  /\ Quiet
  /\ UNCHANGED <<unit, llm, stop_event, paused, focus, iteration, current_state, ui, execVars, runVars>>

\* a faulty variant: the run counts from zero, whatever the controller holds
RiCallFromZero(t) ==
  /\ pc[t] = "ri_call"
  /\ it' = [it EXCEPT ![t] = 0]
  /\ history' = [history EXCEPT ![t] = <<>>]
  /\ pc' = [pc EXCEPT ![t] = "r_top"]
  /\ Quiet
  /\ UNCHANGED <<unit, llm, stop_event, paused, focus, execVars, continuous, ctlVars>>

\* self._iteration_runner.run(current_state=self.current_state, iteration=self.iteration, ...)
RiCall(t) ==
  /\ pc[t] = "ri_call"
  /\ it' = [it EXCEPT ![t] = iteration]
  /\ history' = [history EXCEPT ![t] = <<>>]
  /\ pc' = [pc EXCEPT ![t] = "r_top"]
  /\ Quiet
  /\ UNCHANGED <<unit, llm, stop_event, paused, focus, execVars, continuous, ctlVars>>

(***************************************************************************)
(* IterationRunner.run.  Every exception of a pass is caught by the        *)
(* runner's except clause, which logs it and returns normally.             *)
(***************************************************************************)
\* the passes the model follows: more of them in the runs of SpecConverge
PassCap == IF unit = LongRun THEN MaxLongPasses ELSE MaxPasses

\* the top of the loop: the stop flag, then the missing calibration
RunTop(t) ==
  /\ pc[t] = "r_top"
  /\ stop_event \/ ~calibration[t] \/ it[t] < PassCap
  /\ pc' = [pc EXCEPT ![t] = IF stop_event \/ ~calibration[t] THEN "r_ret" ELSE "r_cap"]
  /\ out' = <<>>
  /\ log' = IF ~stop_event /\ ~calibration[t]
              THEN <<Msg("CALIBRATION_MISSING", NoAction)>> ELSE <<>>
  /\ UNCHANGED <<unit, llm, stop_event, paused, focus, execVars, runVars, ctlVars>>

\* the values current_state is seeded with: every control but roi_center
SeedState == [c \in DOMAIN ControlDefaults \ {"roi_center"} |-> ControlDefaults[c]]

\* a faulty variant: every pass seeds
SeededEveryPass(cs) == SeedState

\* if not current_state: the defaults are written into an empty current_state
Seeded(cs) == IF cs = NoState THEN SeedState ELSE cs

\* capture_roi and compute_metrics, then the seeding of an empty current_state
RunCapture(t) ==
  /\ pc[t] = "r_cap"
  /\ \E fails \in BOOLEAN :
       IF fails
         THEN /\ err' = [err EXCEPT ![t] = "CaptureError"]
              /\ pc' = [pc EXCEPT ![t] = "r_ret"]
              /\ log' = <<Msg("ITERATION_FAILED", NoAction)>>
              /\ UNCHANGED current_state
         ELSE /\ current_state' = Seeded(current_state)
              /\ pc' = [pc EXCEPT ![t] = "r_req"]
              /\ log' = <<>>
              /\ UNCHANGED err
  /\ out' = <<>>
  /\ UNCHANGED <<unit, llm, stop_event, paused, focus, actions, i, executed, fail_fast,
                 rollback_on_fail, calibration, undo_calls, runVars, state, iteration, ui>>

\* a faulty variant: the stop flag of the response is not looked at
ResponseNeverStops(r) == FALSE

\* if response.stop
ResponseStops(r) == r.stop

\* on_recommendation_received(summary): the message tells a response with the
\* stop flag set from one without
Received(r) == <<Msg(IF r.stop THEN "RESPONSE_STOP" ELSE "RESPONSE", NoAction)>>

\* request_actions: it raises, or returns a response; a response with stop set
\* ends the loop, any other starts execute_actions with the default arguments
RunRequest(t) ==
  /\ pc[t] = "r_req"
  /\ \/ /\ err' = [err EXCEPT ![t] = "LlmError"]
        /\ pc' = [pc EXCEPT ![t] = "r_ret"]
        /\ log' = <<Msg("ITERATION_FAILED", NoAction)>>
        /\ UNCHANGED <<actions, i, executed, fail_fast, rollback_on_fail, undo_calls>>
     \/ \E r \in Responses :
          IF ResponseStops(r)
            THEN /\ pc' = [pc EXCEPT ![t] = "r_ret"]
                 /\ log' = Received(r) \o <<Msg("LLM_STOP", NoAction)>>
                 /\ UNCHANGED <<actions, i, executed, fail_fast, rollback_on_fail,
                                undo_calls, err>>
            ELSE /\ actions' = [actions EXCEPT ![t] = r.actions]
                 /\ i' = [i EXCEPT ![t] = 1]
                 /\ executed' = [executed EXCEPT ![t] = <<>>]
                 /\ fail_fast' = [fail_fast EXCEPT ![t] = TRUE]
                 /\ rollback_on_fail' = [rollback_on_fail EXCEPT ![t] = TRUE]
                 /\ undo_calls' = [undo_calls EXCEPT ![t] = 0]
                 /\ pc' = [pc EXCEPT ![t] = "e_top"]
                 /\ log' = Received(r)
                 /\ UNCHANGED err
  /\ out' = <<>>
  /\ UNCHANGED <<unit, llm, stop_event, paused, focus, calibration, runVars, ctlVars>>

\* for action in actions: a set_slider whose target is in current_state sets it
RECURSIVE UpdateState(_, _)
UpdateState(cs, acts) ==
  IF acts = <<>>
    THEN cs
    ELSE LET a == Head(acts)
             hit == Get(a, "type") = {"set_slider"} /\ Get(a, "target") \subseteq DOMAIN cs
                    /\ Get(a, "target") # {}
             tgt == CHOOSE x \in Get(a, "target") : TRUE
         IN UpdateState(IF hit THEN [cs EXCEPT ![tgt] = OptInt(Get(a, "value"))] ELSE cs,
                        Tail(acts))

\* action["value"] raises KeyError for a set_slider payload without a value
UpdateRaises(cs, acts) ==
  \E k \in 1..Len(acts) :
    /\ Get(acts[k], "type") = {"set_slider"}
    /\ Get(acts[k], "target") # {}
    /\ Get(acts[k], "target") \subseteq DOMAIN cs
    /\ "value" \notin DOMAIN acts[k]

\* a faulty variant: only convergence ends the loop
LoopEndsOnConvergence(cont, converged) == converged

\* the end of a pass: convergence in continuous mode, or a single pass
LoopEnds(cont, converged) == ~cont \/ converged

\* after execute_actions: update current_state, re-capture and re-score, count
\* the iteration, report it to on_iteration_updated, then decide whether the
\* loop goes on
RunAfter(t) ==
  /\ pc[t] = "r_upd"
  /\ executed' = [executed EXCEPT ![t] = <<>>]
  /\ actions' = [actions EXCEPT ![t] = <<>>]
  /\ i' = [i EXCEPT ![t] = 1]
  /\ IF UpdateRaises(current_state, actions[t])
       THEN /\ err' = [err EXCEPT ![t] = "KeyError"]
            /\ pc' = [pc EXCEPT ![t] = "r_ret"]
            /\ log' = <<Msg("ITERATION_FAILED", NoAction)>>
            /\ UNCHANGED <<current_state, it, history>>
       ELSE /\ current_state' = UpdateState(current_state, actions[t])
            /\ \E fails \in BOOLEAN :
                 IF fails
                   THEN /\ err' = [err EXCEPT ![t] = "CaptureError"]
                        /\ pc' = [pc EXCEPT ![t] = "r_ret"]
                        /\ log' = <<Msg("ITERATION_FAILED", NoAction)>>
                        /\ UNCHANGED <<it, history>>
                   ELSE \E score \in Scores :
                          LET hist == IF continuous[t] THEN Append(history[t], score)
                                      ELSE history[t]
                              stops == LoopEnds(continuous[t], Converged(hist))
                          IN /\ it' = [it EXCEPT ![t] = @ + 1]
                             /\ history' = [history EXCEPT ![t] = hist]
                             /\ pc' = [pc EXCEPT ![t] = IF stops THEN "r_ret" ELSE "r_top"]
                             /\ log' = <<Msg("ITERATION_UPDATED", NoAction)>>
                                       \o (IF continuous[t] /\ Converged(hist)
                                             THEN <<Msg("CONVERGENCE", NoAction)>>
                                             ELSE <<>>)
                             /\ UNCHANGED err
  /\ out' = <<>>
  /\ UNCHANGED <<unit, llm, stop_event, paused, focus, fail_fast, rollback_on_fail,
                 calibration, undo_calls, continuous, state, iteration, ui>>

\* run returns (iteration, last_metrics, current_state); run_iteration stores
\* them and reads the stop flag to choose the transition that ends the run
RunReturn(t) ==
  /\ pc[t] = "r_ret"
  /\ iteration' = it[t]
  /\ pc' = [pc EXCEPT ![t] = IF stop_event THEN "ri_stopped_chk" ELSE "ri_readyend_chk"]
  /\ actions' = [actions EXCEPT ![t] = <<>>]
  /\ i' = [i EXCEPT ![t] = 1]
  /\ executed' = [executed EXCEPT ![t] = <<>>]
  /\ undo_calls' = [undo_calls EXCEPT ![t] = 0]
  /\ history' = [history EXCEPT ![t] = <<>>]
  /\ Quiet
  /\ UNCHANGED <<unit, llm, stop_event, paused, focus, fail_fast, rollback_on_fail, calibration, err,
                 it, continuous, state, current_state, ui>>

RunStep(t) ==
  \/ RiState(t)
  \/ RiCheck(t)
  \/ RiAssign(t)
  \/ RiCall(t)
  \/ RunTop(t)
  \/ RunCapture(t)
  \/ RunRequest(t)
  \/ RunAfter(t)
  \/ RunReturn(t)
  \/ ExecStep(t)

(***************************************************************************)
(* The UI thread.  AgentController.stop is trigger_stop, then              *)
(* transition(STOPPED), whose ValueError is caught and logged;             *)
(* AgentController.transition passes its target to the state machine and   *)
(* lets the ValueError through.                                            *)
(***************************************************************************)
StopCall ==
  /\ ui.pc = "idle"
  /\ stop_event' = TRUE
  /\ ui' = [pc |-> "chk", op |-> "stop", target |-> "STOPPED", raised |-> FALSE]
  /\ Quiet
  /\ UNCHANGED <<unit, llm, paused, focus, pc, execVars, runVars, state, iteration, current_state>>

TransitionCall ==
  /\ ui.pc = "idle"
  /\ \E target \in AgentStates :
       ui' = [pc |-> "chk", op |-> "transition", target |-> target, raised |-> FALSE]
  /\ Quiet
  /\ UNCHANGED <<unit, llm, stop_event, paused, focus, pc, execVars, runVars, state, iteration,
                 current_state>>

\* transition: if not self.can_transition(target): raise ValueError
UiCheck ==
  /\ ui.pc = "chk"
  /\ IF can_transition(state, ui.target)
       THEN /\ ui' = [ui EXCEPT !.pc = "set"]
            /\ log' = <<>>
       ELSE /\ ui' = [UiIdle EXCEPT !.raised = TRUE]
            /\ log' = IF ui.op = "stop"
                        THEN <<Msg("INVALID_TRANSITION", NoAction)>> ELSE <<>>
  /\ out' = <<>>
  /\ UNCHANGED <<unit, llm, stop_event, paused, focus, pc, execVars, runVars, state, iteration,
                 current_state>>

\* transition: self._state = target
UiAssign ==
  /\ ui.pc = "set"
  /\ state' = ui.target
  /\ ui' = UiIdle
  /\ Quiet
  /\ UNCHANGED <<unit, llm, stop_event, paused, focus, pc, execVars, runVars, iteration, current_state>>

\* the initial state with Resolve holding the focus
InitRace == Init /\ focus = "resolve"

\* sequential runs on one controller, the UI's stop, and the environment
Next ==
  \/ StartRun(Runner)
  \/ RunStep(Runner)
  \/ StopCall
  \/ UiCheck
  \/ UiAssign
  \/ FocusChange
  \/ OnKey
  \/ SetPaused

Spec == Init /\ [][Next]_vars

\* the runner's thread keeps running: every blocking call returns
FairSpec == Spec /\ WF_vars(RunStep(Runner))

\* sequential runs with no other controller operation; the stop flag is set by
\* the hotkey listener only
NextSolo ==
  \/ StartRun(Runner)
  \/ RunStep(Runner)
  \/ FocusChange
  \/ OnKey
  \/ SetPaused

SpecSolo == Init /\ [][NextSolo]_vars

\* the state machine driven from the UI thread through every target, next to
\* the runs and the UI's stop
NextFsm ==
  \/ StartRun(Runner)
  \/ RunStep(Runner)
  \/ StopCall
  \/ TransitionCall
  \/ UiCheck
  \/ UiAssign

SpecFsm == InitRace /\ [][NextFsm]_vars

\* two run_iteration calls on two task-queue threads

NextRace ==
  \/ \E t \in Workers : StartRunAny(t)
  \/ \E t \in Workers : RunStep(t)
  \/ OnKey

SpecRace == InitRace /\ [][NextRace]_vars

(***************************************************************************)
(* A request_actions call attempt by attempt, and what the runner does     *)
(* with the response.                                                      *)
(***************************************************************************)
LlmOthers ==
  <<state, stop_event, paused, focus, iteration, current_state, ui, pc, actions, i,
    executed, fail_fast, rollback_on_fail, calibration, undo_calls, err, it, continuous,
    history, unit>>

\* request_actions is called
RequestActions ==
  /\ llm.pc \in {"idle", "raised", "used"}
  /\ llm' = [LlmIdle EXCEPT !.pc = "loop"]
  /\ Quiet
  /\ UNCHANGED LlmOthers

\* one attempt: requests.post, and the handling of its reply
Attempt ==
  /\ llm.pc = "loop"
  /\ llm.attempt <= MAX_RETRIES
  /\ \E reply \in Replies :
       llm' = Handle([llm EXCEPT !.requests = @ + 1, !.seen = Append(@, reply.kind),
                                 !.reply = reply, !.norm = NotRun],
                     reply)
  /\ Quiet
  /\ UNCHANGED LlmOthers

\* after the loop: the rate-limit error if a 429 was seen, else the generic one
GiveUp ==
  /\ \/ llm.pc = "loop" /\ llm.attempt > MAX_RETRIES
     \/ llm.pc = "broke"
  /\ llm' = [llm EXCEPT !.pc = "raised",
                        !.error = IF llm.rate_limited THEN RateLimitError
                                  ELSE InvalidResponseError]
  /\ Quiet
  /\ UNCHANGED LlmOthers

\* IterationRunner.run on the response: a set stop flag ends the loop, else
\* the actions go to execute_actions
UseResponse ==
  /\ llm.pc = "returned"
  /\ llm' = [llm EXCEPT !.pc = "used",
                        !.handed = IF llm.result.stop.b THEN Null ELSE llm.result.actions]
  /\ out' = <<>>
  /\ log' = IF llm.result.stop.b THEN <<Msg("LLM_STOP", NoAction)>> ELSE <<>>
  /\ UNCHANGED LlmOthers

NextLlm ==
  \/ RequestActions
  \/ Attempt
  \/ GiveUp
  \/ UseResponse

SpecLlm == InitRace /\ [][NextLlm]_vars

(***************************************************************************)
(* Objects called on their own: MetricsNormalizer, ConvergenceDetector and *)
(* CalibrationProfile.  The controller, the executor and the model client  *)
(* are at rest.                                                            *)
(***************************************************************************)
UnitOthers ==
  <<state, stop_event, paused, focus, iteration, current_state, ui, pc, actions, i,
    executed, fail_fast, rollback_on_fail, calibration, undo_calls, err, it, continuous,
    history, llm>>

\* the state in which the object u is about to be called
InitUnit(u) ==
  /\ state = "IDLE"
  /\ stop_event = FALSE
  /\ paused = FALSE
  /\ focus = "resolve"
  /\ iteration = 0
  /\ current_state = NoState
  /\ out = <<>>
  /\ log = <<>>
  /\ ui = UiIdle
  /\ pc = [t \in Threads |-> "idle"]
  /\ actions = [t \in Threads |-> <<>>]
  /\ i = [t \in Threads |-> 1]
  /\ executed = [t \in Threads |-> <<>>]
  /\ fail_fast = [t \in Threads |-> TRUE]
  /\ rollback_on_fail = [t \in Threads |-> TRUE]
  /\ calibration = [t \in Threads |-> TRUE]
  /\ undo_calls = [t \in Threads |-> 0]
  /\ err = [t \in Threads |-> ""]
  /\ it = [t \in Threads |-> 0]
  /\ continuous = [t \in Threads |-> FALSE]
  /\ history = [t \in Threads |-> <<>>]
  /\ llm = LlmIdle
  /\ unit = u

(***************************************************************************)
(* MetricsNormalizer.normalize.  ssim and the histogram distance are in    *)
(* hundredths, delta_e in whole units (delta_e / 50 is then 2 * delta_e    *)
(* hundredths), the weights in tenths and the score in thousandths.        *)
(***************************************************************************)
WEIGHTS == [ssim |-> 4, histogram |-> 3, delta_e |-> 3]

normalize(ssim, histogram, delta_e) ==
  LET ssim_score == Max(0, Min(100, ssim))
      hist_score == Max(0, 100 - Min(histogram, 100))
      delta_score == Max(0, 100 - Min(2 * delta_e, 100))
  IN WEIGHTS["ssim"] * ssim_score + WEIGHTS["histogram"] * hist_score
     + WEIGHTS["delta_e"] * delta_score

\* the inputs: below, inside, at the ends of and above the nominal ranges
SsimValues == {-50, 0, 40, 100, 150}

HistogramValues == {-50, 0, 30, 100, 150}

DeltaEValues == {-10, 0, 20, 50, 80}

NormalizeCalls ==
  {[op |-> "normalize", ssim |-> s, histogram |-> h, delta_e |-> d, ret |-> {}] :
     s \in SsimValues, h \in HistogramValues, d \in DeltaEValues}

InitMetrics == \E u \in NormalizeCalls : InitUnit(u)

Normalize ==
  /\ unit.op = "normalize"
  /\ unit.ret = {}
  /\ unit' = [unit EXCEPT !.ret = {normalize(unit.ssim, unit.histogram, unit.delta_e)}]
  /\ Quiet
  /\ UNCHANGED UnitOthers

NextMetrics == Normalize

SpecMetrics == InitMetrics /\ [][NextMetrics]_vars

(***************************************************************************)
(* ConvergenceDetector with its default window and threshold.  added is    *)
(* the record of the scores passed to add so far.                          *)
(***************************************************************************)
MaxAdds == 7

\* overall scores, in thousandths: equal, one threshold apart, and far apart
DetectorScores == Scores \cup {510}

\* ConvergenceDetector.__init__
NewDetector == [op |-> "detector", history |-> <<>>, added |-> <<>>, ret |-> FALSE]

InitDetector == InitUnit(NewDetector)

\* ConvergenceDetector.add: the score is appended, and nothing is removed
Add ==
  /\ unit.op = "detector"
  /\ Len(unit.added) < MaxAdds
  /\ \E score \in DetectorScores :
       LET hist == Append(unit.history, score)
       IN unit' = [unit EXCEPT !.history = hist,
                               !.added = Append(@, score),
                               !.ret = Converged(hist)]
  /\ Quiet
  /\ UNCHANGED UnitOthers

NextDetector == Add

SpecDetector == InitDetector /\ [][NextDetector]_vars

(***************************************************************************)
(* CalibrationProfile: from_dict on stored data, then update_roi calls.    *)
(***************************************************************************)
MaxUpdates == 2

\* a faulty variant: the half rounded down
FloorHalf(n) == n \div 2

\* int(n / 2): the quotient with its fraction dropped, toward zero
IntHalf(n) == IF n >= 0 THEN n \div 2 ELSE -((-n) \div 2)

\* Roi(x, y, width, height); a size is right_bottom minus left_top, of any sign
Rois ==
  {[x |-> x, y |-> 20, width |-> w, height |-> h] :
     x \in {0, 10}, w \in {100, 30, 10, 7, -3}, h \in {50, 40, -5}}

\* the roi of a stored profile: a complete one, or one without its origin
StoredRois == Rois \cup {[width |-> 100, height |-> 50]}

LiftPoint == [x |-> 300, y |-> 400]

\* the targets of a stored profile: without a centre, or with one of another ROI
StoredTargets ==
  {[lift |-> LiftPoint], [lift |-> LiftPoint, roi_center |-> [x |-> 1, y |-> 1]]}

\* center_x, center_y of a ROI
RoiCenter(roi) == [x |-> roi.x + IntHalf(roi.width), y |-> roi.y + IntHalf(roi.height)]

\* targets[name] = point
SetTarget(targets, name, point) ==
  [n \in DOMAIN targets \cup {name} |-> IF n = name THEN point ELSE targets[n]]

\* CalibrationProfile.from_dict: the centre is derived when the roi has x and y
from_dict(data) ==
  [op |-> "profile",
   roi |-> data.roi,
   targets |-> IF {"x", "y"} \subseteq DOMAIN data.roi
                 THEN SetTarget(data.targets, "roi_center", RoiCenter(data.roi))
                 ELSE data.targets,
   updates |-> 0]

\* CalibrationProfile.update_roi
update_roi(profile, roi) ==
  [profile EXCEPT !.roi = roi,
                  !.targets = SetTarget(@, "roi_center", RoiCenter(roi)),
                  !.updates = @ + 1]

InitProfile ==
  \E roi \in StoredRois : \E targets \in StoredTargets :
    InitUnit([op |-> "data", roi |-> roi, targets |-> targets])

FromDict ==
  /\ unit.op = "data"
  /\ unit' = from_dict(unit)
  /\ Quiet
  /\ UNCHANGED UnitOthers

UpdateRoi ==
  /\ unit.op = "profile"
  /\ unit.updates < MaxUpdates
  /\ \E roi \in Rois : unit' = update_roi(unit, roi)
  /\ Quiet
  /\ UNCHANGED UnitOthers

NextProfile == FromDict \/ UpdateRoi

SpecProfile == InitProfile /\ [][NextProfile]_vars

(***************************************************************************)
(* Continuous runs followed until the detector ends them.                  *)
(***************************************************************************)
\* runs followed long enough to converge, with the window focused and nobody
\* stopping or pausing
InitConverge == InitUnit(LongRun)

NextConverge ==
  \/ StartRun(Runner)
  \/ RunStep(Runner)

SpecConverge == InitConverge /\ [][NextConverge]_vars

(***************************************************************************)
(* Properties.                                                             *)
(***************************************************************************)
\* C1: every synthetic input event (of an action, of the fail-fast rollback,
\* of the refocus attempt, of the standalone undo) is sent while Resolve's
\* window has the input focus.
C1_InputOnlyWithFocus == \A k \in 1..Len(out) : out[k].at = "resolve"

\* C2: a keypress whose keys are missing, empty or hold a key outside the
\* allow-list (compared in lower case) fails validation with E002, with or
\* without a calibration; the only message logged about such an action is its
\* E002 rejection, and every key combination sent is non-empty and inside the
\* allow-list, whatever fail_fast is.
C2_DisallowedKeysRejected ==
  LET BadKeys(a) ==
        \/ a["keys"] = {}
        \/ \E ks \in a["keys"] : ks = <<>> \/ \E k \in Range(ks) : Lower(k) \notin ALLOWED_KEYS
  IN /\ \A raw \in RawActions, cal \in BOOLEAN :
          (ParseOk(raw) /\ Get(raw, "type") = {"keypress"} /\ BadKeys(ParseAction(raw)))
            => /\ ~validate(clamp_drag(ParseAction(raw)), cal).ok
               /\ validate(clamp_drag(ParseAction(raw)), cal).code = "E002"
     /\ \A k \in 1..Len(log) :
          (log[k].action["type"] = {"keypress"} /\ BadKeys(log[k].action))
            => log[k].code = "E002"
     /\ \A k \in 1..Len(out) :
          out[k].kind = "hotkey"
            => out[k].keys # <<>> /\ \A key \in Range(out[k].keys) : Lower(key) \in ALLOWED_KEYS

\* a disallowed combination has just been rejected with fail_fast off
C2_Witness ==
  /\ ~fail_fast[Direct]
  /\ pc[Direct] = "e_top"
  /\ \E k \in 1..Len(log) :
       log[k].code = "E002" /\ log[k].action["keys"] = {<<"alt", "F4">>}

\* C3 as stated: when execute_actions raises with fail_fast and
\* rollback_on_fail, it has made exactly as many undo calls as there are
\* executed actions.
C3_ExactlyKUndoCalls ==
  (pc[Direct] = "ex_raised" /\ fail_fast[Direct] /\ rollback_on_fail[Direct])
    => undo_calls[Direct] = Len(executed[Direct])

\* C3, amended: with fail_fast and rollback_on_fail, when action k+1 fails after
\* k executed ones, the rollback sends nothing but undo keystrokes and
\* execute_actions raises after exactly k undo calls, or, when an undo call
\* itself raises, after that call, which is the last one and one of the k; no
\* action after k+1 is attempted.
C3_UndoCallsUntilFailure ==
  [][(fail_fast[Direct] /\ rollback_on_fail[Direct])
       => /\ (pc[Direct] \in {"e_act", "e_rb"} /\ pc'[Direct] = "ex_raised")
               => /\ i[Direct] = Len(executed[Direct]) + 1
                  /\ i'[Direct] = i[Direct]
                  /\ executed'[Direct] = executed[Direct]
                  /\ IF Msg("ROLLBACK_FAILED", NoAction) \in Range(log')
                       THEN /\ undo_calls'[Direct] >= 1
                            /\ undo_calls'[Direct] <= Len(executed[Direct])
                       ELSE undo_calls'[Direct] = Len(executed[Direct])
          /\ (pc[Direct] = "e_rb" /\ pc'[Direct] # "e_rb")
               => pc'[Direct] = "ex_raised"
          /\ (pc[Direct] = "e_rb" /\ pc'[Direct] \in {"e_rb", "ex_raised"}
              /\ undo_calls'[Direct] # undo_calls[Direct])
               => \A k \in 1..Len(out') : out'[k].keys = <<"ctrl", "z">>
          /\ pc[Direct] = "ex_raised"
               => pc'[Direct] = "ex_raised" \/ i'[Direct] = 1]_vars

\* two actions executed, the third failed, both undone
C3_Witness ==
  /\ pc[Direct] = "ex_raised"
  /\ fail_fast[Direct] /\ rollback_on_fail[Direct]
  /\ Len(executed[Direct]) = 2
  /\ i[Direct] = 3
  /\ undo_calls[Direct] = 2

\* C4: when the stop flag is set as an action's turn begins, execute_actions
\* returns without dispatching anything, without undoing, without raising,
\* and with the executed actions as they are.
C4_StopHaltsBatch ==
  [][(pc[Direct] = "e_top" /\ stop_event /\ pc'[Direct] # "e_top")
       => /\ pc'[Direct] = "ex_ret"
          /\ out' = <<>>
          /\ log' = <<>>
          /\ executed'[Direct] = executed[Direct]
          /\ undo_calls'[Direct] = 0
          /\ err'[Direct] = ""]_vars

\* the batch was cut short by the stop flag after one executed action
C4_Witness ==
  /\ pc[Direct] = "ex_ret"
  /\ stop_event
  /\ Len(executed[Direct]) >= 1
  /\ i[Direct] <= Len(actions[Direct])

\* C5: once the stop flag is set, the runner's loop starts no new pass, and
\* a run inside IterationRunner.run returns, the pause wait included.
C5_StopEndsRun ==
  /\ [][(stop_event /\ pc[Runner] = "r_top") => pc'[Runner] \in {"r_top", "r_ret"}]_vars
  /\ [][(stop_event /\ pc[Runner] = "e_wait") => pc'[Runner] \in {"e_wait", "e_focus"}]_vars
  /\ (stop_event /\ pc[Runner] \in RunnerPcs) ~> (pc[Runner] \notin RunnerPcs)

\* the run has returned with the stop flag set while the executor was paused
C5_Witness ==
  /\ pc[Runner] = "ri_stopped_chk"
  /\ stop_event
  /\ paused

\* C6: a transition call changes the state to its target exactly for the
\* legal pairs; any other call raises and leaves the state as it is.  Checked
\* on the UI thread's calls and on every call run_iteration makes.
C6_TransitionTable ==
  [][LET Legal ==
           {<<"IDLE", "CONFIGURING">>, <<"IDLE", "CALIBRATING">>, <<"IDLE", "READY">>,
            <<"CONFIGURING", "READY">>, <<"CONFIGURING", "IDLE">>,
            <<"CALIBRATING", "READY">>, <<"CALIBRATING", "IDLE">>,
            <<"READY", "RUNNING">>, <<"READY", "CONFIGURING">>, <<"READY", "CALIBRATING">>,
            <<"RUNNING", "PAUSED">>, <<"RUNNING", "STOPPED">>, <<"RUNNING", "ERROR">>,
            <<"RUNNING", "READY">>,
            <<"PAUSED", "RUNNING">>, <<"PAUSED", "STOPPED">>, <<"PAUSED", "ERROR">>,
            <<"STOPPED", "READY">>, <<"STOPPED", "IDLE">>,
            <<"ERROR", "IDLE">>, <<"ERROR", "READY">>}
     IN /\ (ui.pc = "chk" /\ ui' # ui)
             => /\ state' = state
                /\ IF <<state, ui.target>> \in Legal
                     THEN ui'.pc = "set" /\ ui'.target = ui.target /\ ~ui'.raised
                     ELSE ui'.pc = "idle" /\ ui'.raised
        /\ (ui.pc = "set" /\ ui' # ui) => state' = ui.target
        /\ \A t \in Workers :
             /\ (pc[t] \in DOMAIN CheckSites /\ pc'[t] # pc[t])
                  => /\ state' = state
                     /\ IF <<state, CheckSites[pc[t]].target>> \in Legal
                          THEN pc'[t] = CheckSites[pc[t]].ok /\ err'[t] = err[t]
                          ELSE pc'[t] = CheckSites[pc[t]].fail /\ err'[t] = "ValueError"
             /\ (pc[t] \in DOMAIN AssignSites /\ pc'[t] # pc[t])
                  => state' = AssignSites[pc[t]].target]_vars

\* a transition from PAUSED was rejected
C6_Witness == state = "PAUSED" /\ ui.raised /\ ui.pc = "idle"

\* C7: with no other controller operation, a run_iteration call never fails
\* from IDLE or READY, goes from IDLE through READY, is in RUNNING all the
\* time the runner is active, and ends in STOPPED when the stop flag read at
\* the runner's return is set and in READY otherwise.
C7_RunIterationStates ==
  [][/\ pc'[Runner] \in RunnerPcs => state' = "RUNNING"
     /\ pc'[Runner] \notin {"ri_error_chk", "ri_error_set"}
     /\ pc'[Runner] = "raised" => state' \in {"STOPPED", "ERROR"}
     /\ (pc[Runner] = "ri_state" /\ pc'[Runner] # "ri_state" /\ state \in {"IDLE", "READY"})
          => pc'[Runner] = IF state = "IDLE" THEN "ri_ready_chk" ELSE "ri_running_chk"
     /\ (pc[Runner] = "ri_ready_set" /\ pc'[Runner] # "ri_ready_set")
          => state = "IDLE" /\ state' = "READY"
     /\ (pc[Runner] = "ri_running_set" /\ pc'[Runner] # "ri_running_set")
          => state = "READY" /\ state' = "RUNNING" /\ pc'[Runner] = "ri_call"
     /\ (pc[Runner] = "r_ret" /\ pc'[Runner] # "r_ret")
          => pc'[Runner] = IF stop_event THEN "ri_stopped_chk" ELSE "ri_readyend_chk"
     /\ (pc[Runner] = "ri_stopped_chk" /\ pc'[Runner] # "ri_stopped_chk")
          => pc'[Runner] = "ri_stopped_set"
     /\ (pc[Runner] = "ri_readyend_chk" /\ pc'[Runner] # "ri_readyend_chk")
          => pc'[Runner] = "ri_readyend_set"
     /\ (pc[Runner] = "ri_stopped_set" /\ pc'[Runner] # "ri_stopped_set")
          => pc'[Runner] = "returned" /\ state' = "STOPPED"
     /\ (pc[Runner] = "ri_readyend_set" /\ pc'[Runner] # "ri_readyend_set")
          => pc'[Runner] = "returned" /\ state' = "READY"]_vars

\* a run that began in IDLE has returned after one pass, the stop flag unset
C7_Witness ==
  /\ pc[Runner] = "returned"
  /\ state = "READY"
  /\ iteration = 1
  /\ ~stop_event

\* C8: after a run in which a pass failed, the state is ERROR or STOPPED.
C8_FailedPassNotReady ==
  (pc[Runner] \in {"returned", "raised"}
   /\ err[Runner] \in {"CaptureError", "LlmError", "E001", "E002", "E003", "E004"})
    => state \in {"ERROR", "STOPPED"}

\* C9: a run in which the model client or execute_actions raised does not
\* return normally.
C9_FailurePropagates ==
  err[Runner] \in {"LlmError", "E001", "E002", "E003", "E004"} => pc[Runner] # "returned"

\* C10: at most one thread is inside IterationRunner.run.
C10_OneLoopActive == Cardinality({t \in Workers : pc[t] \in RunnerPcs}) <= 1


(***************************************************************************)
(* C17.  clamp_drag maps each non-null dx and dy of an action to           *)
(* max(-200, min(200, v)) and leaves in-range and null values as they are: *)
(* the action the executor logs, executes and returns carries the clamped  *)
(* deltas of the payload, and every relative pointer move it sends has     *)
(* both deltas within [-200, 200].                                         *)
(***************************************************************************)
C17_ClampDrag ==
  LET raw == actions[Direct][1]
      Limit(s) == {Max(-200, Min(200, v)) : v \in s}
      expected == [ParseAction(raw) EXCEPT !["dx"] = Limit(raw["dx"]),
                                           !["dy"] = Limit(raw["dy"])]
      Kept(f) == /\ raw[f] = {} => expected[f] = {}
                 /\ \A v \in raw[f] : v \in -200..200 => expected[f] = {v}
  IN /\ Kept("dx") /\ Kept("dy")
     /\ \A k \in 1..Len(log) : log[k].action # NoAction => log[k].action = expected
     /\ \A k \in 1..Len(executed[Direct]) : executed[Direct][k] = expected
     /\ \A k \in 1..Len(out) :
          out[k].kind = "moveRel" =>
            /\ out[k].dx \in -200..200 /\ out[k].dy \in -200..200
            /\ out[k].dx = OptInt(expected["dx"]) /\ out[k].dy = OptInt(expected["dy"])

\* a drag asking for 500 to the right and 201 up is sent as a move by 200 and -200
C17_Witness ==
  /\ actions[Direct] # <<>>
  /\ actions[Direct][1]["dx"] = {500}
  /\ actions[Direct][1]["dy"] = {-201}
  /\ \E k \in 1..Len(out) : out[k].kind = "moveRel" /\ out[k].dx = 200 /\ out[k].dy = -200

(***************************************************************************)
(* C18.  validate rejects with E001 every drag whose target is null or is  *)
(* not a key of the calibration's targets, whatever calibration is passed, *)
(* an absent one included: the only message execute_actions logs about     *)
(* such a drag is its E001 rejection (after the note on dropped fields).   *)
(***************************************************************************)
C18_DragTargetChecked ==
  \A k \in 1..Len(log) :
    LET action == log[k].action
    IN (action["type"] = {"drag"}
        /\ (action["target"] = {} \/ ~(action["target"] \subseteq Targets)))
         => /\ log[k].code \in {"E001", "IGNORED_FIELDS"}
            /\ ~validate(action, calibration[Direct]).ok
            /\ ~validate(action, FALSE).ok

(***************************************************************************)
(* C19.  An action whose type is none of drag, set_slider and keypress is  *)
(* skipped with a log message and the batch goes on: no error is raised    *)
(* and no rollback starts, under fail_fast and rollback_on_fail too.       *)
(***************************************************************************)
C19_UnsupportedSkipped ==
  \A k \in 1..Len(log) :
    (/\ log[k].action["type"] # {}
     /\ ~(log[k].action["type"] \subseteq {"drag", "set_slider", "keypress"}))
      => /\ pc[Direct] = "e_top"
         /\ err[Direct] = ""
         /\ undo_calls[Direct] = 0

(***************************************************************************)
(* C20, as stated.  For every setting of fail_fast, an action that fails   *)
(* to parse (E003) or fails validation (E001, E002) ends the batch with a  *)
(* raised error: the loop does not go on to a later action.                *)
(***************************************************************************)
C20_RejectionEndsBatch ==
  \A k \in 1..Len(log) :
    log[k].code \in {"E001", "E002", "E003"}
      => /\ pc[Direct] \in {"e_rb", "ex_raised"}
         /\ err[Direct] = log[k].code

(***************************************************************************)
(* C20, amended.  An action that fails to parse (E003) or fails validation *)
(* (E001, E002) is never dispatched.  With fail_fast it ends the batch     *)
(* with a raised error carrying its code, and once the error is set the    *)
(* call is rolling back or has raised; without fail_fast the failure is    *)
(* logged and the loop goes on to the next action with no error.           *)
(***************************************************************************)
C20_RejectionPerFailFast ==
  /\ \A k \in 1..Len(log) :
       log[k].code \in {"E001", "E002", "E003"}
         => /\ out = <<>>
            /\ IF fail_fast[Direct]
                 THEN pc[Direct] \in {"e_rb", "ex_raised"} /\ err[Direct] = log[k].code
                 ELSE pc[Direct] = "e_top" /\ err[Direct] = "" /\ i[Direct] > 1
  /\ err[Direct] # "" => pc[Direct] \in {"e_rb", "ex_raised"}

\* a keypress rejected with E002 is passed over in a batch without fail_fast
\* that has already executed an action
C20_Witness ==
  /\ ~fail_fast[Direct]
  /\ pc[Direct] = "e_top"
  /\ executed[Direct] # <<>>
  /\ \E k \in 1..Len(log) : log[k].code = "E002"

(***************************************************************************)
(* C11.  A schema-valid response whose confidence is below the minimum     *)
(* (0.3) is returned with an empty action list and the stop flag set, and  *)
(* the runner hands no action to the executor in that pass; a response at  *)
(* or above the minimum is returned with its actions and stop flag as the  *)
(* model gave them.                                                        *)
(***************************************************************************)
C11_ConfidenceGate ==
  llm.pc \in {"returned", "used"} =>
    LET data == llm.norm.v
    IN /\ llm.norm.exc = ""
       /\ llm.result.confidence = data.f["confidence"]
       /\ IF data.f["confidence"].n < 30
            THEN /\ llm.result.actions = List(<<>>)
                 /\ llm.result.stop = Bool(TRUE)
                 /\ llm.pc = "used" => llm.handed = Null
            ELSE /\ llm.result.actions = data.f["actions"]
                 /\ llm.result.stop = data.f["stop"]
                 /\ llm.pc = "used" =>
                      llm.handed = IF data.f["stop"].b THEN Null ELSE data.f["actions"]

\* a response with one action, stop false and confidence 0.2 has been gated, and
\* the runner has ended its loop without calling the executor
C11_Witness ==
  /\ llm.pc = "used"
  /\ llm.reply = Reply("content", Complete(List(<<EGood>>), FALSE, 20))
  /\ llm.result.actions = List(<<>>)
  /\ llm.result.stop = Bool(TRUE)
  /\ llm.handed = Null

(***************************************************************************)
(* C12.  Whatever the endpoint answers, one request_actions call issues at *)
(* most max_retries + 1 = 3 HTTP requests; it returns only a response that *)
(* passed schema validation; and when the attempts are used up, or the     *)
(* loop is broken, without such a response, it raises an error.            *)
(***************************************************************************)
C12_BoundedRetries ==
  [][/\ llm'.requests <= 3
     /\ llm'.requests = Len(llm'.seen)
     /\ llm'.pc \in {"returned", "used"} =>
          /\ llm'.result # NoResponse
          /\ llm'.norm.exc = ""
          /\ llm'.result.raw = llm'.norm.v
          /\ SchemaValid(llm'.result.raw)
          /\ llm'.error = NoError
     /\ llm'.pc = "raised" => llm'.error # NoError /\ llm'.result = NoResponse
     /\ (llm.pc \in {"loop", "broke"} /\ llm'.pc # llm.pc) =>
          \/ llm'.pc = "returned"
          \/ llm'.pc = "raised"
          \/ llm.pc = "loop" /\ llm'.pc = "broke"
     /\ (llm.pc = "loop" /\ llm.requests = 3) => llm'.pc = "raised"]_vars

\* three requests, the last one answered with content that fails the schema:
\* the call has raised the generic error
C12_Witness ==
  /\ llm.pc = "raised"
  /\ llm.requests = 3
  /\ llm.seen = <<"timeout", "bad_json", "content">>
  /\ llm.norm.exc = ""
  /\ ~SchemaValid(llm.norm.v)
  /\ llm.error = InvalidResponseError

C15_UnderivableRaises ==
  LET c == llm.reply.content
  IN (/\ llm.reply.kind = "content"
      /\ \/ c.t # "obj"
         \/ GetJ(c, "actions").t # "list" /\ ~Has(c, "action"))
       => llm.norm.exc = "ValueError"

(***************************************************************************)
(* C15, amended.  Such a response is never returned, with empty or         *)
(* defaulted actions or otherwise: the normalization raises ValueError,    *)
(* unless the response has all four keys, in which case the normalization  *)
(* returns it unchanged and the schema validation that follows raises; in  *)
(* both cases the attempt ends as a failed one.                            *)
(***************************************************************************)
C15_UnderivableRejected ==
  LET c == llm.reply.content
  IN (/\ llm.reply.kind = "content"
      /\ \/ c.t # "obj"
         \/ GetJ(c, "actions").t # "list" /\ ~Has(c, "action"))
       => /\ IF c.t = "obj" /\ SchemaKeys \subseteq DOMAIN c.f
               THEN llm.norm = Return(c) /\ ~SchemaValid(c)
               ELSE llm.norm.exc = "ValueError"
          /\ llm.pc \in {"loop", "raised"}
          /\ llm.last_error = "ValueError"
          /\ llm.result = NoResponse
          /\ llm.handed = Null

\* a response with the four keys and actions null: the normalization has
\* returned it, and the attempt has failed in the validation
C15_Witness ==
  /\ llm.reply = Reply("content", Complete(Null, FALSE, 90))
  /\ llm.norm = Return(Complete(Null, FALSE, 90))
  /\ llm.last_error = "ValueError"
  /\ llm.pc = "loop"

(***************************************************************************)
(* C16.  A response, with the four keys or legacy, that contains an action *)
(* entry whose type cannot be determined (the entry is not an object, or   *)
(* its type is missing, null or empty) is a validation failure of the      *)
(* attempt: request_actions never returns it, neither with the entry       *)
(* passed on nor with the entry dropped.                                   *)
(***************************************************************************)
C16_UndeterminedTypeRejected ==
  LET c == llm.reply.content
      undetermined(e) ==
        \/ e.t # "obj"
        \/ ~Truthy(GetJ(e, "type")) /\ ~Truthy(GetJ(e, "action"))
  IN (/\ llm.reply.kind = "content"
      /\ c.t = "obj"
      /\ GetJ(c, "actions").t = "list"
      /\ \E k \in 1..Len(c.f["actions"].items) : undetermined(c.f["actions"].items[k]))
       => /\ llm.pc \in {"loop", "raised"}
          /\ llm.last_error = "ValueError"
          /\ llm.result = NoResponse

(***************************************************************************)
(* C21.  With fail_fast=false execute_actions never raises and never       *)
(* issues an undo; it goes through the batch in order, one position per    *)
(* attempt, and leaves the loop before the end of the batch only on a stop *)
(* request or a focus loss; the list it returns grows by exactly the       *)
(* actions that executed successfully, in the order of the batch.          *)
(***************************************************************************)
C21_NoFailFastContinues ==
  [][~fail_fast'[Direct] =>
       LET failed == \E k \in 1..Len(log') : log'[k].code \in {"E001", "E002", "E003", "E004"}
       IN /\ err'[Direct] = ""
          /\ pc'[Direct] \notin {"e_rb", "ex_raised"}
          /\ undo_calls'[Direct] = 0
          /\ (pc[Direct] # "ex_ret" /\ pc'[Direct] = "ex_ret") =>
               \/ i'[Direct] = Len(actions'[Direct]) + 1
               \/ stop_event
               \/ \E k \in 1..Len(log') : log'[k].code = "NOT_FOCUSED"
          /\ (pc[Direct] = "e_act" /\ pc'[Direct] # "e_act") =>
               /\ pc'[Direct] = "e_top"
               /\ i'[Direct] = i[Direct] + 1
               /\ executed'[Direct] =
                    IF failed THEN executed[Direct]
                    ELSE Append(executed[Direct], log'[Len(log')].action)
          /\ pc[Direct] \in {"e_top", "e_wait", "e_focus"} =>
               executed'[Direct] = executed[Direct] /\ i'[Direct] = i[Direct]]_vars

\* a batch of three has been gone through to its end with one action executed
\* and two passed over
C21_Witness ==
  /\ ~fail_fast[Direct]
  /\ pc[Direct] = "ex_ret"
  /\ Len(actions[Direct]) = 3
  /\ i[Direct] = 4
  /\ Len(executed[Direct]) = 1

(***************************************************************************)
(* C22.  For all inputs, negative ones and ones above the nominal range    *)
(* included, normalize returns                                             *)
(* 0.4*clamp01(ssim) + 0.3*(1 - clamp01(histogram))                        *)
(* + 0.3*(1 - clamp01(delta_e/50)), a value in [0, 1], and exactly 1 for   *)
(* a perfect match.                                                        *)
(***************************************************************************)
C22_OverallInUnitRange ==
  (unit.op = "normalize" /\ unit.ret # {}) =>
    LET clamp01(v) == IF v < 0 THEN 0 ELSE IF v > 100 THEN 100 ELSE v
    IN \A r \in unit.ret :
         /\ r = 4 * clamp01(unit.ssim) + 3 * (100 - clamp01(unit.histogram))
                + 3 * (100 - clamp01(2 * unit.delta_e))
         /\ r >= 0 /\ r <= 1000
         /\ (unit.ssim = 100 /\ unit.histogram = 0 /\ unit.delta_e = 0) => r = 1000

(***************************************************************************)
(* C23.  The k-th call of ConvergenceDetector.add returns true exactly     *)
(* when k is at least the window size N and max minus min of the N scores  *)
(* added last is strictly below the threshold; each of the first N-1 calls *)
(* returns false.                                                          *)
(***************************************************************************)
C23_ConvergedExactly ==
  (unit.op = "detector" /\ unit.added # <<>>) =>
    LET k == Len(unit.added)
        last == {unit.added[j] : j \in (IF k >= WINDOW_SIZE THEN k - WINDOW_SIZE + 1 ELSE 1)..k}
        spread == CHOOSE w \in 0..1000 : \E a \in last, b \in last :
                    /\ w = a - b
                    /\ \A c \in last : c <= a /\ b <= c
    IN /\ unit.ret = (k >= WINDOW_SIZE /\ spread < THRESHOLD)
       /\ k < WINDOW_SIZE => ~unit.ret

\* the sixth call returns true on five equal scores that follow a different one
C23_Witness ==
  /\ unit.op = "detector"
  /\ unit.added = <<510, 500, 500, 500, 500, 500>>
  /\ unit.ret

(***************************************************************************)
(* C29.  After any sequence of add calls the stored history holds at most  *)
(* N scores: the most recent min(k, N) in insertion order, the oldest      *)
(* being evicted when an (N+1)-th is added.                                *)
(***************************************************************************)
C29_HistoryBounded ==
  unit.op = "detector" =>
    LET k == Len(unit.added)
    IN /\ Len(unit.history) <= WINDOW_SIZE
       /\ unit.history = SubSeq(unit.added,
                                (IF k >= WINDOW_SIZE THEN k - WINDOW_SIZE + 1 ELSE 1), k)

(***************************************************************************)
(* C24.  In non-continuous mode one IterationRunner.run call makes at most *)
(* one pass: once the model has been asked the run never comes back to the *)
(* head of the loop, so there is at most one request, one execute_actions  *)
(* batch and one observer callback, and the iteration counter it returns   *)
(* exceeds the one it was given by at most 1.                              *)
(***************************************************************************)
C24_SinglePass ==
  [][~continuous[Runner] =>
       /\ pc[Runner] \in {"e_top", "e_wait", "e_focus", "e_act", "e_rb", "r_upd", "r_ret"}
            => pc'[Runner] \notin {"r_top", "r_cap", "r_req"}
       /\ (\E k \in 1..Len(log') : log'[k].code = "ITERATION_UPDATED")
            => /\ pc[Runner] = "r_upd"
               /\ pc'[Runner] = "r_ret"
               /\ it[Runner] = iteration
               /\ it'[Runner] = iteration + 1
       /\ pc[Runner] \in RunnerPcs
            => /\ it[Runner] \in {iteration, iteration + 1}
               /\ iteration' \in {iteration, iteration + 1}
       /\ pc[Runner] \in {"r_top", "r_cap", "r_req"} => it[Runner] = iteration]_vars

\* the single pass has been made and reported, and the run is about to return
C24_Witness ==
  /\ ~continuous[Runner]
  /\ pc[Runner] = "r_ret"
  /\ it[Runner] = iteration + 1
  /\ \E k \in 1..Len(log) : log[k].code = "ITERATION_UPDATED"

(***************************************************************************)
(* C30.  When the model response of a pass has stop=true the loop ends in  *)
(* that pass, in continuous mode too: nothing is dispatched, current_state *)
(* is not updated, the iteration counter is not incremented and the        *)
(* observer callback is not invoked; the run goes to its return.           *)
(***************************************************************************)
C30_ResponseStopEndsLoop ==
  [][/\ (\E k \in 1..Len(log') : log'[k].code = "RESPONSE_STOP")
          => /\ pc[Runner] = "r_req"
             /\ pc'[Runner] = "r_ret"
             /\ out' = <<>>
             /\ current_state' = current_state
             /\ it'[Runner] = it[Runner]
             /\ actions'[Runner] = <<>>
             /\ err'[Runner] = ""
             /\ \A k \in 1..Len(log') : log'[k].code # "ITERATION_UPDATED"
     /\ (pc[Runner] = "r_req" /\ pc'[Runner] = "e_top")
          => \A k \in 1..Len(log') : log'[k].code # "RESPONSE_STOP"
     /\ (pc[Runner] = "r_ret" /\ pc'[Runner] # "r_ret")
          => /\ pc'[Runner] \in {"ri_stopped_chk", "ri_readyend_chk"}
             /\ current_state' = current_state
             /\ iteration' = it[Runner]
             /\ out' = <<>>
             /\ \A k \in 1..Len(log') : log'[k].code # "ITERATION_UPDATED"]_vars

\* a continuous run whose second pass was answered with stop: it is about to
\* return with the counter of the first pass
C30_Witness ==
  /\ continuous[Runner]
  /\ pc[Runner] = "r_ret"
  /\ it[Runner] = 1
  /\ \E k \in 1..Len(log) : log[k].code = "RESPONSE_STOP"

(***************************************************************************)
(* C25.  After a pass, an entry of current_state has changed only for a    *)
(* set_slider action that execute_actions executed successfully: a         *)
(* set_slider that was not dispatched because of a stop or a focus-loss    *)
(* halt leaves its entry as it was.                                        *)
(***************************************************************************)
C25_StateFollowsExecuted ==
  [][\A c \in DOMAIN current_state \cap DOMAIN current_state' :
       current_state'[c] # current_state[c]
         => \E k \in 1..Len(executed[Runner]) :
              /\ executed[Runner][k].type = {"set_slider"}
              /\ executed[Runner][k].target = {c}]_vars

(***************************************************************************)
(* C26.  After from_dict on a roi that has x and y, and after every        *)
(* update_roi, the roi_center target is (roi.x + h(roi.width),             *)
(* roi.y + h(roi.height)) where h halves and drops the fraction toward     *)
(* zero; update_roi leaves every other target as it was.  Roi              *)
(* (10,20,100,50) gives (60,45) and updating to (10,20,30,40) gives        *)
(* (25,40).                                                                *)
(***************************************************************************)
HalvedTowardZero(q, n) ==
  IF n >= 0 THEN 2 * q <= n /\ n < 2 * q + 2
            ELSE 2 * q >= n /\ n > 2 * q - 2

C26_CenterFollowsRoi ==
  [][unit'.op = "profile" =>
       /\ {"x", "y"} \subseteq DOMAIN unit'.roi =>
            /\ "roi_center" \in DOMAIN unit'.targets
            /\ HalvedTowardZero(unit'.targets["roi_center"].x - unit'.roi.x, unit'.roi.width)
            /\ HalvedTowardZero(unit'.targets["roi_center"].y - unit'.roi.y, unit'.roi.height)
       /\ unit'.roi = [x |-> 10, y |-> 20, width |-> 100, height |-> 50]
            => unit'.targets["roi_center"] = [x |-> 60, y |-> 45]
       /\ unit'.roi = [x |-> 10, y |-> 20, width |-> 30, height |-> 40]
            => unit'.targets["roi_center"] = [x |-> 25, y |-> 40]
       /\ unit.op = "profile" =>
            /\ DOMAIN unit'.targets = DOMAIN unit.targets \cup {"roi_center"}
            /\ \A n \in DOMAIN unit.targets \ {"roi_center"} :
                 unit'.targets[n] = unit.targets[n]]_vars

\* the profile read from (10,20,100,50) has been updated to (10,20,30,40), and
\* again to a ROI of negative odd width
C26_Witness ==
  /\ unit.op = "profile"
  /\ unit.updates = 2
  /\ unit.roi.width = -3
  /\ unit.targets["roi_center"].x = unit.roi.x - 1
  /\ unit.targets["lift"] = LiftPoint

\* C26 as stated: the halves are rounded down
C26_CenterIsFloor ==
  (unit.op = "profile" /\ {"x", "y"} \subseteq DOMAIN unit.roi) =>
    /\ "roi_center" \in DOMAIN unit.targets
    /\ unit.targets["roi_center"] =
         [x |-> unit.roi.x + (unit.roi.width \div 2),
          y |-> unit.roi.y + (unit.roi.height \div 2)]

(***************************************************************************)
(* C27.  When the stop flag is set while execute_actions is blocked in the *)
(* pause wait before an action, the wait ends and that action is not       *)
(* dispatched, nor any later one: with the pause never lifted, the call    *)
(* sends no input for an action and executes none.                         *)
(***************************************************************************)
C27_StopInPauseWaitSkipsAction ==
  [][pc[Direct] = "e_act" => out' = <<>> /\ executed'[Direct] = executed[Direct]]_vars

(***************************************************************************)
(* C28.  Once set, the stop flag stays set: no step of the executor, the   *)
(* runner, the controller or the environment clears it, and a run that     *)
(* finds it set at the top of its loop begins no further pass.             *)
(***************************************************************************)
C28_StopIsTerminal ==
  [][stop_event =>
       /\ stop_event'
       /\ (pc[Runner] = "r_top" /\ pc'[Runner] # "r_top") => pc'[Runner] = "r_ret"
       /\ pc'[Runner] = "r_cap" => pc[Runner] = "r_cap"]_vars

\* a continuous run that was stopped after its first pass has left the loop and
\* is about to return, the flag still set
C28_Witness ==
  /\ stop_event
  /\ continuous[Runner]
  /\ pc[Runner] = "r_ret"
  /\ it[Runner] = 1
  /\ err[Runner] = ""
  /\ log = <<>>

(***************************************************************************)
(* C31.  current_state is seeded from the calibration's defaults only      *)
(* while it is empty: the seeding happens in the capture step of a pass    *)
(* and writes the defaults of every control but roi_center; once an entry  *)
(* is present it stays, and only the update after execute_actions changes  *)
(* its value, in later passes and in later run_iteration calls alike.      *)
(***************************************************************************)
C31_SeededOnlyWhileEmpty ==
  [][/\ "roi_center" \notin DOMAIN current_state'
     /\ (current_state = NoState /\ current_state' # NoState)
          => pc[Runner] = "r_cap" /\ current_state' = [lift |-> 0]
     /\ current_state # NoState
          => /\ DOMAIN current_state' = DOMAIN current_state
             /\ \A c \in DOMAIN current_state :
                  current_state'[c] # current_state[c] => pc[Runner] = "r_upd"
             /\ pc[Runner] = "r_cap" => current_state' = current_state]_vars

\* a later pass has made its capture and the value an earlier set_slider
\* recorded is still there
C31_Witness ==
  /\ pc[Runner] = "r_req"
  /\ current_state # NoState
  /\ current_state["lift"] = 1

(***************************************************************************)
(* C32.  In continuous mode the loop ends after a completed pass exactly   *)
(* when the five most recent post-action scores of the completed passes of *)
(* that run differ by less than the threshold, and repeats otherwise; the  *)
(* detector has been fed one score for every completed pass of the run, so *)
(* no run ends for convergence before its fifth completed pass.            *)
(***************************************************************************)
C32_StopsExactlyOnConvergence ==
  [][continuous[Runner] =>
       /\ pc[Runner] \in {"r_top", "r_cap", "r_req", "e_top", "e_wait", "e_focus", "e_act",
                          "e_rb", "r_upd"}
            => Len(history[Runner]) = it[Runner] - iteration
       /\ (\E k \in 1..Len(log') : log'[k].code = "ITERATION_UPDATED")
            => LET h == history'[Runner]
                   n == Len(h)
                   stable == /\ n >= 5
                             /\ \A a \in (n - 4)..n, b \in (n - 4)..n : h[a] - h[b] < 1
               IN /\ pc[Runner] = "r_upd"
                  /\ n = Len(history[Runner]) + 1
                  /\ SubSeq(h, 1, n - 1) = history[Runner]
                  /\ it'[Runner] = it[Runner] + 1
                  /\ pc'[Runner] = (IF stable THEN "r_ret" ELSE "r_top")
                  /\ stable <=> \E k \in 1..Len(log') : log'[k].code = "CONVERGENCE"
       /\ (\E k \in 1..Len(log') : log'[k].code = "CONVERGENCE")
            => it'[Runner] - iteration >= 5]_vars

\* a run has ended for convergence after its sixth pass, the first score
\* differing from the five that followed
C32_Witness ==
  /\ continuous[Runner]
  /\ pc[Runner] = "r_ret"
  /\ history[Runner] = <<501, 500, 500, 500, 500, 500>>
  /\ \E k \in 1..Len(log) : log[k].code = "CONVERGENCE"

C34_DispatchedInOrder ==
  [][LET t == Runner
         loop == {"e_top", "e_wait", "e_focus", "e_act"}
         same(a, raw) == /\ a["type"] = raw.type
                         /\ a["target"] = raw.target
                         /\ a["value"] = (IF "value" \in DOMAIN raw THEN raw.value ELSE {})
                         /\ a["keys"] = (IF "keys" \in DOMAIN raw THEN raw.keys ELSE {})
     IN /\ (pc[t] \in loop /\ pc'[t] \in loop)
             => /\ actions'[t] = actions[t]
                /\ i'[t] \in {i[t], i[t] + 1}
                /\ pc[t] # "e_act" => i'[t] = i[t] /\ executed'[t] = executed[t]
        /\ pc[t] = "e_act"
             => /\ i[t] \in 1..Len(actions[t])
                /\ pc'[t] \in loop \ {"e_act"} => i'[t] = i[t] + 1
                /\ executed'[t] # executed[t]
                     => /\ Len(executed'[t]) = Len(executed[t]) + 1
                        /\ SubSeq(executed'[t], 1, Len(executed[t])) = executed[t]
                        /\ same(executed'[t][Len(executed'[t])], actions[t][i[t]])
                        /\ i'[t] = i[t] + 1
        /\ pc'[t] \in loop \cup {"r_upd"}
             => \E f \in [1..Len(executed'[t]) -> 1..Len(actions'[t])] :
                  /\ \A k \in DOMAIN f : f[k] < i'[t] /\ same(executed'[t][k], actions'[t][f[k]])
                  /\ \A k1 \in DOMAIN f, k2 \in DOMAIN f : k1 < k2 => f[k1] < f[k2]
        /\ (pc[t] \in loop /\ pc'[t] = "r_upd") => executed'[t] = executed[t]]_vars

\* the call has returned with both actions of the response executed, the
\* keypress before the slider
C34_Witness ==
  /\ pc[Runner] = "r_upd"
  /\ Len(actions[Runner]) = 2
  /\ Len(executed[Runner]) = 2
  /\ executed[Runner][1]["type"] = {"keypress"}
  /\ executed[Runner][2]["type"] = {"set_slider"}

(***************************************************************************)
(* C35.  When the focus check before an action fails and the one refocus   *)
(* attempt fails too, execute_actions sets the paused flag and returns the *)
(* actions executed so far: that action and the later ones are not         *)
(* dispatched, no undo is issued and no error is raised, under fail_fast   *)
(* as well; the attempt is made once, sending at most its one alt press.   *)
(***************************************************************************)
C35_FocusLossHaltsBatch ==
  [][/\ (\E k \in 1..Len(log') : log'[k].code = "NOT_FOCUSED")
          => /\ pc[Direct] = "e_focus"
             /\ focus = "other"
             /\ focus' = "other"
             /\ paused'
             /\ pc'[Direct] = "ex_ret"
             /\ executed'[Direct] = executed[Direct]
             /\ i'[Direct] = i[Direct]
             /\ err'[Direct] = ""
             /\ undo_calls'[Direct] = 0
             /\ Len(log') = 1
             /\ Len(out') <= 1
             /\ \A k \in 1..Len(out') : out'[k].kind = "hotkey" /\ out'[k].keys = <<"alt">>
     /\ (pc[Direct] = "e_focus" /\ pc'[Direct] # "e_focus")
          => /\ pc'[Direct] \in {"e_act", "ex_ret"}
             /\ pc'[Direct] = "e_act" => focus' \in {"resolve", "none"}
             /\ pc'[Direct] = "ex_ret" => \E k \in 1..Len(log') : log'[k].code = "NOT_FOCUSED"
     /\ pc[Direct] = "ex_ret"
          => /\ pc'[Direct] \in {"ex_ret", "e_top"}
             /\ pc'[Direct] = "ex_ret" => executed' = executed /\ i' = i]_vars

\* a fail_fast call has returned its first action after the refocus attempt
\* before the second one failed
C35_Witness ==
  /\ pc[Direct] = "ex_ret"
  /\ fail_fast[Direct]
  /\ paused
  /\ Len(executed[Direct]) = 1
  /\ i[Direct] = 2
  /\ Len(actions[Direct]) >= 2
  /\ \E k \in 1..Len(log) : log[k].code = "NOT_FOCUSED"

(***************************************************************************)
(* C36.  When AgentController.stop() is called from another thread while a *)
(* run is in progress, the run ends with the state machine in STOPPED and  *)
(* run_iteration returns the runner's result: its end-of-run transition    *)
(* to STOPPED does not raise the invalid-transition error.                 *)
(***************************************************************************)
C36_StopDuringRunReturns ==
  [][(pc[Runner] = "ri_stopped_chk" /\ pc'[Runner] # "ri_stopped_chk")
       => pc'[Runner] = "ri_stopped_set" /\ err'[Runner] # "ValueError"]_vars

(***************************************************************************)
(* C37.  request_actions raises the rate-limit error only if the last      *)
(* attempt of the call was answered with HTTP 429: a call with a 429 on an *)
(* earlier attempt whose last attempt ended on a JSON or schema failure, a *)
(* timeout or another HTTP error raises the generic failure error.         *)
(***************************************************************************)
C37_RateLimitOnlyOnLast429 ==
  (llm.pc = "raised" /\ llm.seen # <<>>) =>
    /\ llm.error = RateLimitError
         => llm.seen[Len(llm.seen)] \in
              {"status_429", "status_429_bad_retry_after", "http_error_429"}
    /\ llm.seen[Len(llm.seen)] \in {"bad_json", "timeout", "http_error", "content"}
         => llm.error # RateLimitError

(***************************************************************************)
(* C38.  A transport failure that is neither a timeout nor a 429, that is  *)
(* another HTTP error status or a connection error, ends request_actions   *)
(* at once with the generic failure error: it is the last attempt of the   *)
(* call, whatever budget remains.                                          *)
(***************************************************************************)
C38_TransportFailureEndsCall ==
  (llm.seen # <<>> /\ llm.seen[Len(llm.seen)] \in {"http_error", "request_exception"})
    => /\ llm.pc \in {"broke", "raised"}
       /\ llm.pc = "raised" => llm.error = InvalidResponseError

(***************************************************************************)
(* C39.  The paused flag, once set by a focus-loss halt, is cleared only   *)
(* by set_paused(false): no step of an execute_actions call or of a new    *)
(* call clears it, and while it is set and no stop is requested a call     *)
(* that has reached the pause wait stays there and executes nothing,       *)
(* whichever window has the focus.                                         *)
(***************************************************************************)
C39_PauseHeldUntilResumed ==
  [][/\ (paused /\ ~paused')
          => /\ pc' = pc
             /\ execVars' = execVars
             /\ focus' = focus
             /\ stop_event' = stop_event
             /\ out' = <<>>
     /\ (\E k \in 1..Len(log') : log'[k].code = "NOT_FOCUSED") => paused'
     /\ (paused /\ paused' /\ ~stop_event /\ pc[Direct] = "e_wait")
          => /\ pc'[Direct] = "e_wait"
             /\ executed'[Direct] = executed[Direct]
             /\ i'[Direct] = i[Direct]
     /\ (pc[Direct] = "e_wait" /\ pc'[Direct] # "e_wait")
          => pc'[Direct] = "e_focus" /\ (~paused \/ stop_event)]_vars

\* after a focus-loss halt the next call waits in the pause wait, the window
\* focused again and no stop requested
C39_Witness ==
  /\ pc[Direct] = "e_wait"
  /\ paused
  /\ ~stop_event
  /\ focus = "resolve"
  /\ executed[Direct] = <<>>
  /\ i[Direct] = 1


\* C40: a run_iteration call whose transition to RUNNING is attempted while the
\* state is STOPPED, ERROR, RUNNING or PAUSED raises the invalid-transition
\* error and leaves the agent state, the iteration counter and current_state
\* as they were; the call never gets to the Iteration Runner
C40_RunIterationRejectsNonReady ==
  [][(/\ pc[Runner] = "ri_running_chk"
      /\ pc'[Runner] # "ri_running_chk"
      /\ state \in {"STOPPED", "ERROR", "RUNNING", "PAUSED"})
        => (/\ pc'[Runner] = "raised"
            /\ err'[Runner] = "ValueError"
            /\ state' = state
            /\ iteration' = iteration
            /\ current_state' = current_state)]_vars

=============================================================================
